---- MODULE Spec2Model ----
(***************************************************************************)
(* Atropos: the remediation decision-and-execution core.                   *)
(*                                                                         *)
(* The policy model (policy.go), the serialised execution engine with its  *)
(* rate limiter, time-window gate, fallback and escalation (executor.go),  *)
(* the cutter registry (cutter/interface.go), the cut journal (history.go), *)
(* the notification hand-off and the webhook layer (api/webhook.go), as a   *)
(* state machine of concurrent ExecuteCutAsync callers.                    *)
(*                                                                         *)
(* Thresholds and entropies are points k of the grid 0..MaxThreshold, read *)
(* as k / MaxThreshold in [0,1]; only their order matters to the code.     *)
(* Time is a clock of ticks: Second ticks make one unix second (the unit   *)
(* of a record id), Minute ticks one minute (the unit of a rate-limit      *)
(* window and of the HH:MM time of day), DayMinutes minutes one day.       *)
(***************************************************************************)
EXTENDS Integers, Sequences, FiniteSets, TLC

VARIABLES
    policy,       \* RemediationPolicy.nodeIndex: node name -> NodePolicy
    env,          \* the alerts the upstream detector sends in this run
    now,          \* the monotonic clock reading of time.Now()
    wall,         \* the wall clock reading of time.Now()
    mu,           \* Executor.mu: 0 when free, else the alert holding it
    nodeCounts,   \* RateLimiter.nodeCounts: node name -> rateLimitEntry
    files,        \* the history directory: record id -> CutRecord
    pc,           \* per alert: the position of its ExecuteCutAsync goroutine
    req,          \* per alert: the (node, entropy) of the call
    cur,          \* per alert: the strategy being executed and its role
    start,        \* per alert: executeStrategy's start time
    last,         \* per alert: the CutResult of the latest executeStrategy
    ch,           \* per alert: the result channel of ExecuteCutAsync
    journal,      \* every logCut call so far, in order, with its alert
    invocations,  \* every backend call (Cutter.Execute) so far, in order
    admission,    \* the alerts in the order they acquired Executor.mu
    limiter,      \* every checkRateLimit call so far, in order, with its verdict
    gate,         \* per alert: the wall clock readings of checkTimeWindows
    events,       \* every NotificationManager.NotifyCut call so far, in order
    closed,       \* per alert: the result channel is closed
    sent,         \* per alert: the number of sends on the result channel
    http,         \* per alert: the webhook handler serving its request
    cancelled,    \* per alert: the request context c.Request.Context() is done
    sel,          \* the selector check: a declared strategy list and a query
    verified,     \* the signature check: a secret, a payload, a header, the verdict
    dry,          \* the responses of POST /api/v1/cut/dryrun so far, in order
    listing,      \* the ListCuts call checked: the directory, the limit, the result
    correlated,   \* the correlation reads so far: the query and the result
    imports,      \* the responses of POST /api/v1/correlation/import so far
    boot,         \* the LoadPolicy call checked: the document and what it returned
    rw,           \* HistoryManager.mu: its readers, its writer, the readers parked
    callers,      \* per caller of the history manager: the call and its position
    mttr,         \* the calculateMTTR call checked: the cuts and what it returned
    revert,       \* the VBoxCutter.Execute call checked: its child processes so far
    remote        \* the NetworkCutter.Execute call checked: the call and its goroutine

vars == <<policy, env, now, wall, mu, nodeCounts, files, pc, req, cur, start,
          last, ch, journal, invocations, admission, limiter, gate, events,
          closed, sent, http, cancelled, sel, verified, dry, listing,
          correlated, imports, boot, rw, callers, mttr, revert, remote>>

\* The webhook layer, which the engine's own steps leave alone.
webVars == <<http, cancelled>>

\* The engine's state and the selector check.
engineVars == <<policy, env, now, wall, mu, nodeCounts, files, pc, req, cur,
                start, last, ch, journal, invocations, admission, limiter,
                gate, events, closed, sent, sel>>

\* The read API, the policy loader and the checks of single functions, which
\* the engine and the webhook leave alone.
apiVars == <<verified, dry, listing, correlated, imports, boot, rw, callers,
            mttr, revert, remote>>

----------------------------------------------------------------------------
(* Bounds of the model *)

NumAlerts == 4
NumConcurrent == 3
MaxTime == 3
MaxThreshold == 3
MaxMaxCuts == 2
MaxWindow == 1
MaxStrategies == 3
Second == 2
Minute == 2
DayMinutes == 2
CutTimeout == 2
Ceiling == 3

Alerts == 1..NumAlerts
Thresholds == 0..MaxThreshold
None == "nil"

----------------------------------------------------------------------------
(* policy: strategies, node policies, load *)

Strategy(t, a, c, f) ==
    [Threshold |-> t, Action |-> a, Critical |-> c, OnFailure |-> f]

EmptyStrategy == Strategy(0, "", FALSE, "")

NoActionStrategy == Strategy(0, "none", FALSE, "")

NodePolicy(strategies, windows, limit) ==
    [Strategies |-> strategies, TimeWindows |-> windows, RateLimit |-> limit]

\* *policy.RateLimit: a descriptor, or the nil pointer of a node without one.
RateLimit(maxCuts, window) ==
    [nil |-> FALSE, MaxCuts |-> maxCuts, Window |-> window]

NoRateLimit == [nil |-> TRUE, MaxCuts |-> 0, Window |-> 0]

TimeWindow(s, e) == [Start |-> s, End |-> e]

\* The float64 that is no number (yaml `.nan`), beside the thresholds, which
\* count in MaxThreshold-ths of one.
NaN == 99

\* Go's <, > and >= on float64: false as soon as an operand is no number.
Lt(x, y) == x # NaN /\ y # NaN /\ x < y

Gt(x, y) == x # NaN /\ y # NaN /\ x > y

Ge(x, y) == x # NaN /\ y # NaN /\ x >= y

\* Mutant of less: the comparison of an ascending sort.
lessAscending(x, y) == Lt(x.Threshold, y.Threshold)

\* sort.Slice's comparison in buildIndex: descending threshold.
less(x, y) == Gt(x.Threshold, y.Threshold)

\* One pass of sort.Slice's insertion sort (the algorithm it runs on slices
\* of at most 12 elements): x sinks left while it is less than its neighbour.
RECURSIVE insert(_, _)
insert(s, x) ==
    IF s # <<>> /\ less(x, s[Len(s)])
    THEN Append(insert(SubSeq(s, 1, Len(s) - 1), x), s[Len(s)])
    ELSE Append(s, x)

RECURSIVE sortSlice(_)
sortSlice(s) ==
    IF s = <<>> THEN <<>>
    ELSE insert(sortSlice(SubSeq(s, 1, Len(s) - 1)), s[Len(s)])

buildIndex(doc) ==
    [name \in DOMAIN doc |->
        [Name |-> name,
         Strategies |-> sortSlice(doc[name].Strategies),
         TimeWindows |-> doc[name].TimeWindows,
         RateLimit |-> doc[name].RateLimit]]

\* Mutant of GetNode: a name that is not in the index resolves to a node of
\* the policy.
GetNodeOrAny(name) ==
    IF name \in DOMAIN policy THEN [ok |-> TRUE, node |-> policy[name]]
    ELSE [ok |-> TRUE, node |-> policy[CHOOSE n \in DOMAIN policy : TRUE]]

GetNode(name) ==
    IF name \in DOMAIN policy THEN [ok |-> TRUE, node |-> policy[name]]
    ELSE [ok |-> FALSE, node |-> None]

\* The loop `for i := range n.Strategies { if <test> { return ... } }`:
\* the lowest of the indices whose strategy passes the test, 0 when none does.
FirstIndex(matching) ==
    IF matching = {} THEN 0
    ELSE CHOOSE i \in matching : \A j \in matching : i <= j

Found(strategies, i) ==
    IF i = 0 THEN [ok |-> FALSE, strategy |-> EmptyStrategy]
    ELSE [ok |-> TRUE, strategy |-> strategies[i]]

NoError == [msg |-> "", node |-> "", strategy |-> 0 - 1]

\* The body of validate's loop for one node: the error of the node's first
\* failed check, with the strategy's index from 0 where one is at fault.
nodeError(name, node) ==
    IF Len(node.Strategies) = 0
    THEN [msg |-> "needs at least one strategy", node |-> name, strategy |-> 0 - 1]
    ELSE LET j == FirstIndex({j \in 1..Len(node.Strategies) :
                        \/ Lt(node.Strategies[j].Threshold, 0)
                        \/ Gt(node.Strategies[j].Threshold, MaxThreshold)
                        \/ node.Strategies[j].Action = ""})
         IN IF j = 0 THEN NoError
            ELSE IF \/ Lt(node.Strategies[j].Threshold, 0)
                    \/ Gt(node.Strategies[j].Threshold, MaxThreshold)
                 THEN [msg |-> "threshold must be 0-1", node |-> name,
                       strategy |-> j - 1]
                 ELSE [msg |-> "action required", node |-> name,
                       strategy |-> j - 1]

\* The errors validate may return: the loop ranges over a map, so the node
\* it meets first is any of the nodes at fault.
validateErrors(doc) ==
    IF DOMAIN doc = {}
    THEN {[msg |-> "policy must define at least one node", node |-> "",
           strategy |-> 0 - 1]}
    ELSE {nodeError(name, doc[name]) : name \in DOMAIN doc} \ {NoError}

validate(doc) == validateErrors(doc) = {}

\* Mutant of SelectStrategy: an entropy below every threshold selects the
\* lowest strategy.
SelectStrategyOrLowest(n, entropy) ==
    LET i == FirstIndex({i \in DOMAIN n.Strategies :
                            Ge(entropy, n.Strategies[i].Threshold)})
    IN Found(n.Strategies, IF i = 0 THEN Len(n.Strategies) ELSE i)

SelectStrategy(n, entropy) ==
    Found(n.Strategies,
          FirstIndex({i \in DOMAIN n.Strategies :
                         Ge(entropy, n.Strategies[i].Threshold)}))

\* Mutant of SelectStrategyByAction: an unmatched action resolves to the
\* node's first strategy.
SelectStrategyByActionOrFirst(n, action) ==
    LET i == FirstIndex({i \in DOMAIN n.Strategies :
                            n.Strategies[i].Action = action})
    IN Found(n.Strategies, IF i = 0 THEN 1 ELSE i)

SelectStrategyByAction(n, action) ==
    Found(n.Strategies,
          FirstIndex({i \in DOMAIN n.Strategies :
                         n.Strategies[i].Action = action}))

GetEscalationStrategy(n, currentThreshold) ==
    Found(n.Strategies,
          FirstIndex({i \in DOMAIN n.Strategies :
                         Gt(n.Strategies[i].Threshold, currentThreshold)}))

----------------------------------------------------------------------------
(* cutter: the registry *)

DockerActions == {"docker_pause_all", "docker_stop_all", "docker_kill_all"}
SshActions == {"ssh_isolate_network"}
VBoxActions == {"vbox_revert_snapshot", "vbox_poweroff", "vbox_reset"}

\* Cutter.CanHandle: strings.HasPrefix(action, "<name>_") over the actions
\* of the model.
CanHandle(c, action) ==
    CASE c = "docker" -> action \in DockerActions
      [] c = "network" -> action \in SshActions
      [] c = "vbox" -> action \in VBoxActions

NewRegistry == <<"docker", "network", "vbox">>

\* Mutant of FindCutter: an action no cutter claims goes to the first cutter.
FindCutterOrFirst(action) ==
    LET cutters == NewRegistry
        hits == {i \in 1..Len(cutters) : CanHandle(cutters[i], action)}
    IN IF hits = {} THEN [ok |-> TRUE, cutter |-> cutters[1]]
       ELSE [ok |-> TRUE,
             cutter |-> cutters[CHOOSE i \in hits : \A j \in hits : i <= j]]

\* Registry.FindCutter: the first registered cutter that claims the action.
FindCutter(action) ==
    LET cutters == NewRegistry
        hits == {i \in 1..Len(cutters) : CanHandle(cutters[i], action)}
    IN IF hits = {} THEN [ok |-> FALSE, cutter |-> None]
       ELSE [ok |-> TRUE,
             cutter |-> cutters[CHOOSE i \in hits : \A j \in hits : i <= j]]

CutResult(target, action, success, err, latency) ==
    [Target |-> target, Action |-> action, Success |-> success,
     Error |-> err, LatencyMs |-> latency]

NoResult == CutResult("", "", FALSE, "", 0)

----------------------------------------------------------------------------
(* engine: rate limiter and time windows *)

rateLimitEntry(count, windowStart) ==
    [count |-> count, windowStart |-> windowStart]

Put(m, k, v) == [x \in DOMAIN m \cup {k} |-> IF x = k THEN v ELSE m[x]]

\* Mutant of checkRateLimit: the full window is tested with > for >=.
checkRateLimitOffByOne(counts, node, rateLimit, t) ==
    IF rateLimit.nil \/ rateLimit.MaxCuts = 0
    THEN [allowed |-> TRUE, err |-> "", counts |-> counts, tracked |-> FALSE]
    ELSE LET exists == node \in DOMAIN counts
             windowDuration == rateLimit.Window * Minute
         IN IF ~exists \/ t - counts[node].windowStart > windowDuration
            THEN [allowed |-> TRUE, err |-> "",
                  counts |-> Put(counts, node, rateLimitEntry(1, t)),
                  tracked |-> TRUE]
            ELSE IF counts[node].count > rateLimit.MaxCuts
            THEN [allowed |-> FALSE, err |-> "rate limit exceeded",
                  counts |-> counts, tracked |-> TRUE]
            ELSE [allowed |-> TRUE, err |-> "",
                  counts |-> Put(counts, node,
                                 rateLimitEntry(counts[node].count + 1,
                                                counts[node].windowStart)),
                  tracked |-> TRUE]

\* Mutant of checkRateLimit: the window duration loses its unit (the
\* multiplication by time.Minute), so a window of Window nanoseconds has
\* elapsed at the next tick.
checkRateLimitNoUnit(counts, node, rateLimit, t) ==
    IF rateLimit.nil \/ rateLimit.MaxCuts = 0
    THEN [allowed |-> TRUE, err |-> "", counts |-> counts, tracked |-> FALSE]
    ELSE LET exists == node \in DOMAIN counts
             windowDuration == 0
         IN IF ~exists \/ t - counts[node].windowStart > windowDuration
            THEN [allowed |-> TRUE, err |-> "",
                  counts |-> Put(counts, node, rateLimitEntry(1, t)),
                  tracked |-> TRUE]
            ELSE IF counts[node].count >= rateLimit.MaxCuts
            THEN [allowed |-> FALSE, err |-> "rate limit exceeded",
                  counts |-> counts, tracked |-> TRUE]
            ELSE [allowed |-> TRUE, err |-> "",
                  counts |-> Put(counts, node,
                                 rateLimitEntry(counts[node].count + 1,
                                                counts[node].windowStart)),
                  tracked |-> TRUE]

\* RateLimiter.checkRateLimit at clock reading t, on the map counts.
checkRateLimit(counts, node, rateLimit, t) ==
    IF rateLimit.nil \/ rateLimit.MaxCuts = 0
    THEN [allowed |-> TRUE, err |-> "", counts |-> counts, tracked |-> FALSE]
    ELSE LET exists == node \in DOMAIN counts
             windowDuration == rateLimit.Window * Minute
         IN IF ~exists \/ t - counts[node].windowStart > windowDuration
            THEN [allowed |-> TRUE, err |-> "",
                  counts |-> Put(counts, node, rateLimitEntry(1, t)),
                  tracked |-> TRUE]
            ELSE IF counts[node].count >= rateLimit.MaxCuts
            THEN [allowed |-> FALSE, err |-> "rate limit exceeded",
                  counts |-> counts, tracked |-> TRUE]
            ELSE [allowed |-> TRUE, err |-> "",
                  counts |-> Put(counts, node,
                                 rateLimitEntry(counts[node].count + 1,
                                                counts[node].windowStart)),
                  tracked |-> TRUE]

\* now.Format("15:04"): the minute of the day.
HHMM(t) == (t \div Minute) % DayMinutes

\* Mutant of checkTimeWindows: the upper end of a window is not tested.
checkTimeWindowsOpenEnded(nodePolicy, t) ==
    IF Len(nodePolicy.TimeWindows) = 0 THEN ""
    ELSE IF \E i \in 1..Len(nodePolicy.TimeWindows) :
               HHMM(t) >= nodePolicy.TimeWindows[i].Start
         THEN ""
         ELSE "outside allowed time windows"

\* Mutant of checkTimeWindows: the lower end of a window is not tested.
checkTimeWindowsUntilEnd(nodePolicy, t) ==
    IF Len(nodePolicy.TimeWindows) = 0 THEN ""
    ELSE IF \E i \in 1..Len(nodePolicy.TimeWindows) :
               HHMM(t) <= nodePolicy.TimeWindows[i].End
         THEN ""
         ELSE "outside allowed time windows"

\* Executor.checkTimeWindows: "" for nil, else the error.
checkTimeWindows(nodePolicy, t) ==
    IF Len(nodePolicy.TimeWindows) = 0 THEN ""
    ELSE IF \E i \in 1..Len(nodePolicy.TimeWindows) :
               /\ HHMM(t) >= nodePolicy.TimeWindows[i].Start
               /\ HHMM(t) <= nodePolicy.TimeWindows[i].End
         THEN ""
         ELSE "outside allowed time windows"

----------------------------------------------------------------------------
(* history: the journal *)

\* fmt.Sprintf("cut_%d_%s", timestamp.Unix(), node)
RecordID(t, node) == [unix |-> t \div Second, node |-> node]

CutRecord(node, entropy, strategy, result, t) ==
    [ID |-> RecordID(t, node),
     Node |-> node,
     Entropy |-> entropy,
     Timestamp |-> t,
     Strategy |-> [Threshold |-> strategy.Threshold,
                   Action |-> strategy.Action,
                   Critical |-> strategy.Critical],
     Action |-> result.Action,
     Success |-> result.Success,
     LatencyMs |-> result.LatencyMs,
     Error |-> result.Error]

\* A file of the history directory: the record written to it, decodable
\* unless the write broke off.
File(record, decodable) == [record |-> record, decodable |-> decodable]

\* HistoryManager.SaveCut, failing with err or succeeding (""): os.Create
\* truncates the file of the same name, then the record is encoded into it.
SaveCut(dir, record, err) ==
    CASE err = "create file" -> dir
      [] err = "encode record" -> Put(dir, record.ID, File(record, FALSE))
      [] OTHER -> Put(dir, record.ID, File(record, TRUE))

\* The errors SaveCut and the notifier can return in this run.
SaveErrors == IF env.faults THEN {"", "create file", "encode record"} ELSE {""}

NotifyErrors ==
    IF env.faults /\ env.notifications = "enabled"
    THEN {"", "notifications failed"} ELSE {""}

\* notifications.CutEvent as logCut fills it.
CutEvent(record, entropy) ==
    [ID |-> record.ID, Node |-> record.Node, Action |-> record.Action,
     Success |-> record.Success, Entropy |-> entropy,
     LatencyMs |-> record.LatencyMs, Error |-> record.Error,
     Timestamp |-> record.Timestamp]

\* NotificationManager.NotifyCut: the call, whether the manager hands the
\* event to its notifier (it does when enabled), and the error returned.
NotifyCut(event, err) ==
    [event |-> event,
     forwarded |-> env.notifications = "enabled",
     err |-> IF env.notifications = "enabled" THEN err ELSE ""]

\* Mutant of logCut: only failures are notified.
logCutNotifyFailures(a, node, entropy, strategy, result, saveErr, notifyErr) ==
    LET record == CutRecord(node, entropy, strategy, result, wall)
    IN /\ journal' = Append(journal, [alert |-> a, role |-> cur[a].role,
                                      strategy |-> strategy,
                                      inflight |-> {b \in Alerts : pc[b] = "backend"},
                                      result |-> result,
                                      saveErr |-> saveErr,
                                      record |-> record])
       /\ files' = SaveCut(files, record, saveErr)
       /\ events' = IF env.notifications # "nil" /\ ~result.Success
                    THEN Append(events, NotifyCut(CutEvent(record, entropy), notifyErr))
                    ELSE events

\* Executor.logCut, called by alert a: the record, the save (whose error is
\* logged), the notification (whose error is logged).
logCut(a, node, entropy, strategy, result, saveErr, notifyErr) ==
    LET record == CutRecord(node, entropy, strategy, result, wall)
    IN /\ journal' = Append(journal, [alert |-> a, role |-> cur[a].role,
                                      strategy |-> strategy,
                                      inflight |-> {b \in Alerts : pc[b] = "backend"},
                                      result |-> result,
                                      saveErr |-> saveErr,
                                      record |-> record])
       /\ files' = SaveCut(files, record, saveErr)
       /\ events' = IF env.notifications # "nil"
                    THEN Append(events, NotifyCut(CutEvent(record, entropy), notifyErr))
                    ELSE events

\* Mutant of AfterLog: a journal write failure fails the cut.
AfterLogSaveSurfaced(result, saveErr, notifyErr) ==
    IF saveErr # ""
    THEN [result EXCEPT !.Success = FALSE, !.Error = saveErr]
    ELSE result

\* What the caller of logCut returns: logCut has no return value and does
\* not touch the result it was given, whatever SaveCut and NotifyCut return.
AfterLog(result, saveErr, notifyErr) == result

----------------------------------------------------------------------------
(* engine: ExecuteCutAsync, ExecuteCut, executeStrategy *)

Running(strategy, role) == [strategy |-> strategy, role |-> role]

\* The capacity of the result channel: make(chan *cutter.CutResult, 1).
ChanCap == 1

\* Mutant of CanSend: the channel is unbuffered, a send needs its receiver.
CanSendUnbuffered(buf, receiving) == receiving

\* `ch <- v` proceeds when the buffer has room or a receiver is waiting.
CanSend(buf, receiving) == Len(buf) < ChanCap \/ receiving

\* The context of alert a's backend call, context.WithTimeout(ctx, 30 s) on
\* the context ExecuteCutAsync was given: done when its deadline has passed
\* or when its parent is done, with the error Err() reports.
CtxDone(a) == cancelled[a] \/ now - start[a] >= CutTimeout

CtxErr(a) ==
    IF cancelled[a] THEN "context canceled" ELSE "context deadline exceeded"

AllBackendErrors ==
    {"", "backend error", "context canceled", "context deadline exceeded"}

\* What Cutter.Execute can return to alert a: nil, an error of its own, or
\* the error of its context once that is done.
BackendErrors(a) ==
    {"", "backend error"} \cup (IF CtxDone(a) THEN {CtxErr(a)} ELSE {})

\* ExecuteCutAsync is called: the goroutine of alert a starts and blocks on
\* Executor.mu.
ExecuteCutAsync(a, node, entropy) ==
    /\ pc[a] = "idle"
    /\ \A b \in 1..(a - 1) : pc[b] # "idle"
    /\ ~env.web
    /\ a <= env.alerts
    /\ node \in env.nodes
    /\ entropy \in env.entropies
    /\ env.serial => \A b \in 1..(a - 1) : pc[b] = "done"
    /\ pc' = [pc EXCEPT ![a] = "lock"]
    /\ req' = [req EXCEPT ![a] = [node |-> node, entropy |-> entropy]]
    /\ UNCHANGED <<policy, env, now, wall, mu, nodeCounts, files, cur, start,
                   last, ch, journal, invocations, admission, limiter, gate,
                   events, closed, sent, sel>>
    /\ UNCHANGED webVars
    /\ UNCHANGED apiVars

\* Mutant of Lock: the mutex is taken without waiting for it to be free.
LockUnguarded(a) ==
    /\ pc[a] = "lock"
    /\ mu' = a
    /\ pc' = [pc EXCEPT ![a] = "admit"]
    /\ admission' = Append(admission, a)
    /\ UNCHANGED <<policy, env, now, wall, nodeCounts, files, req, cur, start,
                   last, ch, journal, invocations, limiter, gate, events,
                   closed, sent, sel>>
    /\ UNCHANGED webVars
    /\ UNCHANGED apiVars

\* e.mu.Lock() returns.
Lock(a) ==
    /\ pc[a] = "lock"
    /\ mu = 0
    /\ mu' = a
    /\ pc' = [pc EXCEPT ![a] = "admit"]
    /\ admission' = Append(admission, a)
    /\ UNCHANGED <<policy, env, now, wall, nodeCounts, files, req, cur, start,
                   last, ch, journal, invocations, limiter, gate, events,
                   closed, sent, sel>>
    /\ UNCHANGED webVars
    /\ UNCHANGED apiVars

\* ExecuteCut from the node lookup to the call of executeStrategy: the node
\* lookup, the time-window gate, the strategy selection and the rate limit,
\* each journalling and returning when it stops the alert.
Admit(a) ==
    /\ pc[a] = "admit"
    /\ \E saveErr \in SaveErrors, notifyErr \in NotifyErrors :
       LET node == req[a].node
           entropy == req[a].entropy
           got == GetNode(node)
       IN IF ~got.ok
          THEN LET result == CutResult(node, "", FALSE, "unknown node", 0)
               IN /\ logCut(a, node, entropy, EmptyStrategy, result, saveErr, notifyErr)
                  /\ last' = [last EXCEPT ![a] = AfterLog(result, saveErr, notifyErr)]
                  /\ pc' = [pc EXCEPT ![a] = "return"]
                  /\ UNCHANGED <<nodeCounts, limiter, cur, gate>>
          ELSE LET nodePolicy == got.node
                   err == checkTimeWindows(nodePolicy, wall)
               IN /\ gate' = [gate EXCEPT ![a] = <<wall>>]
                  /\ IF err # ""
                     THEN LET result == CutResult(node, "", FALSE, err, 0)
                          IN /\ logCut(a, node, entropy, EmptyStrategy, result, saveErr, notifyErr)
                             /\ last' = [last EXCEPT ![a] = AfterLog(result, saveErr, notifyErr)]
                             /\ pc' = [pc EXCEPT ![a] = "return"]
                             /\ UNCHANGED <<nodeCounts, limiter, cur>>
                     ELSE LET picked == SelectStrategy(nodePolicy, entropy)
                          IN IF ~picked.ok
                             THEN LET result == CutResult(node, "none", TRUE, "", 0)
                                  IN /\ logCut(a, node, entropy, NoActionStrategy, result, saveErr, notifyErr)
                                     /\ last' = [last EXCEPT ![a] = AfterLog(result, saveErr, notifyErr)]
                                     /\ pc' = [pc EXCEPT ![a] = "return"]
                                     /\ UNCHANGED <<nodeCounts, limiter, cur>>
                             ELSE LET rl == checkRateLimit(nodeCounts, node,
                                                           nodePolicy.RateLimit, now)
                                  IN /\ nodeCounts' = rl.counts
                                     /\ limiter' = Append(limiter,
                                           [alert |-> a, node |-> node, at |-> now,
                                            allowed |-> rl.allowed,
                                            tracked |-> rl.tracked,
                                            windowStart |->
                                               IF rl.tracked
                                               THEN rl.counts[node].windowStart
                                               ELSE now])
                                     /\ IF ~rl.allowed
                                        THEN LET result == CutResult(node, "", FALSE, rl.err, 0)
                                             IN /\ logCut(a, node, entropy, picked.strategy, result, saveErr, notifyErr)
                                                /\ last' = [last EXCEPT ![a] = AfterLog(result, saveErr, notifyErr)]
                                                /\ pc' = [pc EXCEPT ![a] = "return"]
                                                /\ UNCHANGED cur
                                        ELSE /\ cur' = [cur EXCEPT ![a] =
                                                           Running(picked.strategy, "primary")]
                                             /\ pc' = [pc EXCEPT ![a] = "exec"]
                                             /\ UNCHANGED <<journal, files, events, last>>
    /\ UNCHANGED <<policy, env, now, wall, mu, req, start, ch, invocations,
                   admission, closed, sent, sel>>
    /\ UNCHANGED webVars
    /\ UNCHANGED apiVars

\* Mutant of AfterStrategy: the result of every strategy is examined for a
\* fallback or an escalation, not only the primary's.
AfterStrategyReexamined(a) == "decide"

\* Where ExecuteCut continues when executeStrategy has returned: the primary
\* strategy's result is examined, a fallback's or an escalation's is returned.
AfterStrategy(a) == IF cur[a].role = "primary" THEN "decide" ELSE "return"

\* executeStrategy up to the backend call: the start time, the cutter
\* lookup, and the failure when no cutter claims the action.
ExecStart(a) ==
    /\ pc[a] = "exec"
    /\ start' = [start EXCEPT ![a] = now]
    /\ \E saveErr \in SaveErrors, notifyErr \in NotifyErrors :
       LET node == req[a].node
           strategy == cur[a].strategy
           c == FindCutter(strategy.Action)
       IN IF ~c.ok
          THEN LET result == CutResult(node, strategy.Action, FALSE,
                                       "no cutter for action", 0)
               IN /\ logCut(a, node, 0, strategy, result, saveErr, notifyErr)
                  /\ last' = [last EXCEPT ![a] = AfterLog(result, saveErr, notifyErr)]
                  /\ pc' = [pc EXCEPT ![a] = AfterStrategy(a)]
                  /\ UNCHANGED invocations
          ELSE /\ invocations' = Append(invocations,
                     [alert |-> a, role |-> cur[a].role, cutter |-> c.cutter,
                      action |-> strategy.Action, node |-> node,
                      inflight |-> {b \in Alerts : pc[b] = "backend"}])
               /\ pc' = [pc EXCEPT ![a] = "backend"]
               /\ UNCHANGED <<journal, files, events, last>>
    /\ UNCHANGED <<policy, env, now, wall, mu, nodeCounts, req, cur, ch,
                   admission, limiter, gate, closed, sent, sel>>
    /\ UNCHANGED webVars
    /\ UNCHANGED apiVars

\* The backend call returns err ("" for nil); executeStrategy measures the
\* latency, journals the result and returns it.
executeStrategyReturns(a, err) ==
    /\ pc[a] = "backend"
    /\ err \in BackendErrors(a)
    /\ \E saveErr \in SaveErrors, notifyErr \in NotifyErrors :
       LET node == req[a].node
           strategy == cur[a].strategy
           latency == now - start[a]
           result == IF err # ""
                     THEN CutResult(node, strategy.Action, FALSE, err, latency)
                     ELSE CutResult(node, strategy.Action, TRUE, "", latency)
       IN /\ logCut(a, node, strategy.Threshold, strategy, result, saveErr, notifyErr)
          /\ last' = [last EXCEPT ![a] = AfterLog(result, saveErr, notifyErr)]
          /\ pc' = [pc EXCEPT ![a] = AfterStrategy(a)]
    /\ UNCHANGED <<policy, env, now, wall, mu, nodeCounts, req, cur, start, ch,
                   invocations, admission, limiter, gate, closed, sent, sel>>

\* The same where nothing else reads or writes the journal and the request.
BackendReturn(a, err) ==
    /\ executeStrategyReturns(a, err)
    /\ UNCHANGED webVars
    /\ UNCHANGED apiVars

\* Mutant of Decide: the mutex is released before a fallback or an escalation.
DecideUnlocked(a) ==
    /\ pc[a] = "decide"
    /\ LET nodePolicy == policy[req[a].node]
           strategy == cur[a].strategy
           result == last[a]
           fallback == SelectStrategyByAction(nodePolicy, strategy.OnFailure)
           escalated == GetEscalationStrategy(nodePolicy, strategy.Threshold)
       IN IF ~result.Success /\ strategy.OnFailure # "" /\ fallback.ok
          THEN /\ cur' = [cur EXCEPT ![a] = Running(fallback.strategy, "fallback")]
               /\ pc' = [pc EXCEPT ![a] = "exec"]
          ELSE IF ~result.Success /\ strategy.Critical /\ escalated.ok
          THEN /\ cur' = [cur EXCEPT ![a] = Running(escalated.strategy, "escalation")]
               /\ pc' = [pc EXCEPT ![a] = "exec"]
          ELSE /\ pc' = [pc EXCEPT ![a] = "return"]
               /\ UNCHANGED cur
    /\ mu' = IF pc'[a] = "exec" THEN 0 ELSE mu
    /\ UNCHANGED <<policy, env, now, wall, nodeCounts, files, req, start, last,
                   ch, journal, invocations, admission, limiter, gate, events,
                   closed, sent, sel>>
    /\ UNCHANGED webVars
    /\ UNCHANGED apiVars

\* Mutant of Decide: the escalation of a critical strategy is tried before
\* its fallback.
DecideEscalationFirst(a) ==
    /\ pc[a] = "decide"
    /\ LET nodePolicy == policy[req[a].node]
           strategy == cur[a].strategy
           result == last[a]
           fallback == SelectStrategyByAction(nodePolicy, strategy.OnFailure)
           escalated == GetEscalationStrategy(nodePolicy, strategy.Threshold)
       IN IF ~result.Success /\ strategy.Critical /\ escalated.ok
          THEN /\ cur' = [cur EXCEPT ![a] = Running(escalated.strategy, "escalation")]
               /\ pc' = [pc EXCEPT ![a] = "exec"]
          ELSE IF ~result.Success /\ strategy.OnFailure # "" /\ fallback.ok
          THEN /\ cur' = [cur EXCEPT ![a] = Running(fallback.strategy, "fallback")]
               /\ pc' = [pc EXCEPT ![a] = "exec"]
          ELSE /\ pc' = [pc EXCEPT ![a] = "return"]
               /\ UNCHANGED cur
    /\ UNCHANGED <<policy, env, now, wall, mu, nodeCounts, files, req, start,
                   last, ch, journal, invocations, admission, limiter, gate,
                   events, closed, sent, sel>>
    /\ UNCHANGED webVars
    /\ UNCHANGED apiVars

\* Mutant of Decide: the result of the primary strategy is not looked at.
DecideWhateverResult(a) ==
    /\ pc[a] = "decide"
    /\ LET nodePolicy == policy[req[a].node]
           strategy == cur[a].strategy
           fallback == SelectStrategyByAction(nodePolicy, strategy.OnFailure)
           escalated == GetEscalationStrategy(nodePolicy, strategy.Threshold)
       IN IF strategy.OnFailure # "" /\ fallback.ok
          THEN /\ cur' = [cur EXCEPT ![a] = Running(fallback.strategy, "fallback")]
               /\ pc' = [pc EXCEPT ![a] = "exec"]
          ELSE IF strategy.Critical /\ escalated.ok
          THEN /\ cur' = [cur EXCEPT ![a] = Running(escalated.strategy, "escalation")]
               /\ pc' = [pc EXCEPT ![a] = "exec"]
          ELSE /\ pc' = [pc EXCEPT ![a] = "return"]
               /\ UNCHANGED cur
    /\ UNCHANGED <<policy, env, now, wall, mu, nodeCounts, files, req, start,
                   last, ch, journal, invocations, admission, limiter, gate,
                   events, closed, sent, sel>>
    /\ UNCHANGED webVars
    /\ UNCHANGED apiVars

\* Mutant of Decide: a fallback or an escalation asks the rate limiter
\* again.
DecideCounted(a) ==
    /\ pc[a] = "decide"
    /\ LET nodePolicy == policy[req[a].node]
           strategy == cur[a].strategy
           result == last[a]
           fallback == SelectStrategyByAction(nodePolicy, strategy.OnFailure)
           escalated == GetEscalationStrategy(nodePolicy, strategy.Threshold)
           again == checkRateLimit(nodeCounts, req[a].node, nodePolicy.RateLimit, now)
       IN IF ~result.Success /\ strategy.OnFailure # "" /\ fallback.ok
          THEN /\ cur' = [cur EXCEPT ![a] = Running(fallback.strategy, "fallback")]
               /\ pc' = [pc EXCEPT ![a] = "exec"]
               /\ nodeCounts' = again.counts
          ELSE IF ~result.Success /\ strategy.Critical /\ escalated.ok
          THEN /\ cur' = [cur EXCEPT ![a] = Running(escalated.strategy, "escalation")]
               /\ pc' = [pc EXCEPT ![a] = "exec"]
               /\ nodeCounts' = again.counts
          ELSE /\ pc' = [pc EXCEPT ![a] = "return"]
               /\ UNCHANGED <<cur, nodeCounts>>
    /\ UNCHANGED <<policy, env, now, wall, mu, files, req, start,
                   last, ch, journal, invocations, admission, limiter, gate,
                   events, closed, sent, sel>>
    /\ UNCHANGED webVars
    /\ UNCHANGED apiVars

\* ExecuteCut after the primary strategy: fallback, escalation or return.
Decide(a) ==
    /\ pc[a] = "decide"
    /\ LET nodePolicy == policy[req[a].node]
           strategy == cur[a].strategy
           result == last[a]
           fallback == SelectStrategyByAction(nodePolicy, strategy.OnFailure)
           escalated == GetEscalationStrategy(nodePolicy, strategy.Threshold)
       IN IF ~result.Success /\ strategy.OnFailure # "" /\ fallback.ok
          THEN /\ cur' = [cur EXCEPT ![a] = Running(fallback.strategy, "fallback")]
               /\ pc' = [pc EXCEPT ![a] = "exec"]
          ELSE IF ~result.Success /\ strategy.Critical /\ escalated.ok
          THEN /\ cur' = [cur EXCEPT ![a] = Running(escalated.strategy, "escalation")]
               /\ pc' = [pc EXCEPT ![a] = "exec"]
          ELSE /\ pc' = [pc EXCEPT ![a] = "return"]
               /\ UNCHANGED cur
    /\ UNCHANGED <<policy, env, now, wall, mu, nodeCounts, files, req, start,
                   last, ch, journal, invocations, admission, limiter, gate,
                   events, closed, sent, sel>>
    /\ UNCHANGED webVars
    /\ UNCHANGED apiVars

\* ExecuteCut returns and the deferred e.mu.Unlock() runs; the goroutine of
\* ExecuteCutAsync sends the result on its channel and the deferred
\* close(ch) runs.
Return(a) ==
    /\ pc[a] = "return"
    /\ CanSend(ch[a], http[a].state = "select")
    /\ mu' = 0
    /\ ch' = [ch EXCEPT ![a] = Append(ch[a], last[a])]
    /\ sent' = [sent EXCEPT ![a] = sent[a] + 1]
    /\ closed' = [closed EXCEPT ![a] = TRUE]
    /\ pc' = [pc EXCEPT ![a] = "done"]
    /\ UNCHANGED <<policy, env, now, wall, nodeCounts, files, req, cur, start,
                   last, journal, invocations, admission, limiter, gate,
                   events, sel>>
    /\ UNCHANGED webVars
    /\ UNCHANGED apiVars

\* Time passes: both readings of time.Now() advance.
Tick ==
    /\ now < env.maxTime
    /\ now' = now + 1
    /\ wall' = wall + 1
    /\ UNCHANGED <<policy, env, mu, nodeCounts, files, pc, req, cur, start,
                   last, ch, journal, invocations, admission, limiter, gate,
                   events, closed, sent, sel>>
    /\ UNCHANGED webVars
    /\ UNCHANGED apiVars

\* The wall clock is set back (an NTP step, an operator): the monotonic
\* reading is not affected.
ClockStep ==
    /\ env.steps
    /\ wall = now
    /\ wall > 0
    /\ wall' = wall - 1
    /\ UNCHANGED <<policy, env, now, mu, nodeCounts, files, pc, req, cur, start,
                   last, ch, journal, invocations, admission, limiter, gate,
                   events, closed, sent, sel>>
    /\ UNCHANGED webVars
    /\ UNCHANGED apiVars

----------------------------------------------------------------------------
(* The policies and alert streams of the model *)

\* Two nodes. athena: a critical strategy with an escalation target, rate
\* limited. hermes: strategies chained by on_failure, one action no cutter
\* claims, one on_failure naming no strategy, inside a time window.
PolicyDoc(limit) ==
    [athena |->
        NodePolicy(<<Strategy(2, "docker_pause_all", TRUE, ""),
                     Strategy(3, "vbox_poweroff", FALSE, "")>>,
                   <<>>, limit),
     hermes |->
        NodePolicy(<<Strategy(1, "reboot", TRUE, "missing"),
                     Strategy(3, "vbox_revert_snapshot", TRUE, "ssh_isolate_network"),
                     Strategy(2, "ssh_isolate_network", TRUE, "vbox_revert_snapshot")>>,
                   <<TimeWindow(0, 0)>>, NoRateLimit)]

RateLimits == {RateLimit(m, w) : m \in 1..MaxMaxCuts, w \in 0..MaxWindow}

\* The policy file with other time windows for hermes.
Windowed(doc, windows) == [doc EXCEPT !["hermes"].TimeWindows = windows]

NodeNames == {"athena", "hermes", "ghost"}

\* The webhook handler of one request: where it is, the status and body it
\* answered with, when its select began, and the request it serves.
Handler(state, status, body, since, request) ==
    [state |-> state, status |-> status, body |-> body, since |-> since,
     request |-> request]

\* A request: its JSON body and its X-Lachesis-Signature header.
Request(body, header) == [body |-> body, header |-> header]

NoRequest == Request(<<>>, <<>>)

InitEngine ==
    /\ now = 0
    /\ mu = 0
    /\ nodeCounts = <<>>
    /\ files = <<>>
    /\ pc = [a \in Alerts |-> "idle"]
    /\ req = [a \in Alerts |-> [node |-> "", entropy |-> 0]]
    /\ cur = [a \in Alerts |-> Running(EmptyStrategy, "")]
    /\ start = [a \in Alerts |-> 0]
    /\ last = [a \in Alerts |-> NoResult]
    /\ ch = [a \in Alerts |-> <<>>]
    /\ journal = <<>>
    /\ invocations = <<>>
    /\ admission = <<>>
    /\ limiter = <<>>
    /\ wall = 0
    /\ gate = [a \in Alerts |-> <<>>]
    /\ events = <<>>
    /\ closed = [a \in Alerts |-> FALSE]
    /\ sent = [a \in Alerts |-> 0]
    /\ http = [a \in Alerts |-> Handler("none", 0, NoResult, 0, NoRequest)]
    /\ cancelled = [a \in Alerts |-> FALSE]
    /\ sel = <<>>
    /\ verified = <<>>
    /\ dry = <<>>
    /\ listing = <<>>
    /\ correlated = <<>>
    /\ imports = <<>>
    /\ boot = <<>>
    /\ rw = [readers |-> 0, writer |-> 0, parked |-> {}]
    /\ callers = <<>>
    /\ mttr = <<>>
    /\ revert = <<>>
    /\ remote = <<>>

\* The alert streams: what the upstream detector sends and how long the run
\* lasts.
Scenario(alerts, serial, nodes, entropies, maxTime) ==
    [alerts |-> alerts, serial |-> serial, nodes |-> nodes,
     entropies |-> entropies, maxTime |-> maxTime,
     web |-> FALSE, faults |-> FALSE, steps |-> FALSE,
     notifications |-> "enabled", secret |-> ""]

\* The same stream on a host whose disk and notifier can fail, with the
\* notification manager absent ("nil"), disabled or enabled.
Faulty(scenario, notifications) ==
    [scenario EXCEPT !.faults = TRUE, !.notifications = notifications]

\* The same stream on a host whose wall clock can be set back.
Stepping(scenario) == [scenario EXCEPT !.steps = TRUE]

\* The same stream arriving as POST /api/v1/cut requests.
Posted(scenario, secret) == [scenario EXCEPT !.web = TRUE, !.secret = secret]

\* The runs of the model, each a policy file and an alert stream: concurrent
\* alerts on every node; one alert at a time, more of them and over a longer
\* time, on the rate-limited node under every rate limit; one alert of any
\* kind at any time; one alert at a time on a node whose windows open later
\* in the day, the first of them never.
Runs ==
    { [doc |-> PolicyDoc(RateLimit(MaxMaxCuts, MaxWindow)),
       env |-> Scenario(NumConcurrent, FALSE, NodeNames, {MaxThreshold}, 1)],
      [doc |-> PolicyDoc(RateLimit(MaxMaxCuts, MaxWindow)),
       env |-> Scenario(1, TRUE, NodeNames, Thresholds, MaxTime)] }
    \cup
    { [doc |-> PolicyDoc(limit),
       env |-> Scenario(NumAlerts, TRUE, {"athena"}, {MaxThreshold}, MaxTime)] :
        limit \in RateLimits }
    \cup
    { [doc |-> PolicyDoc(RateLimit(1, MaxWindow)),
       env |-> Faulty(Scenario(1, TRUE, NodeNames, {0, MaxThreshold}, 1), n)] :
        n \in {"nil", "disabled", "enabled"} }
    \cup
    { [doc |-> Windowed(PolicyDoc(NoRateLimit),
                        <<TimeWindow(1, 0), TimeWindow(1, 1)>>),
       env |-> Scenario(2, TRUE, {"hermes"}, {MaxThreshold}, MaxTime)] }

\* policy.LoadPolicy: validate, then buildIndex.
LoadPolicy(doc) ==
    IF validate(doc) THEN [ok |-> TRUE, policy |-> buildIndex(doc)]
    ELSE [ok |-> FALSE, policy |-> <<>>]

Init ==
    /\ \E run \in Runs :
          /\ LoadPolicy(run.doc).ok
          /\ policy = LoadPolicy(run.doc).policy
          /\ env = run.env
    /\ InitEngine

Next ==
    \/ \E a \in Alerts, node \in NodeNames, entropy \in Thresholds :
          ExecuteCutAsync(a, node, entropy)
    \/ \E a \in Alerts : Lock(a)
    \/ \E a \in Alerts : Admit(a)
    \/ \E a \in Alerts : ExecStart(a)
    \/ \E a \in Alerts, err \in AllBackendErrors : BackendReturn(a, err)
    \/ \E a \in Alerts : Decide(a)
    \/ \E a \in Alerts : Return(a)
    \/ Tick

Spec == Init /\ [][Next]_vars

----------------------------------------------------------------------------
(* A host whose wall clock can be set back: alerts one at a time on every  *)
(* node while the clock runs and is stepped.                               *)

InitClock ==
    /\ LoadPolicy(PolicyDoc(NoRateLimit)).ok
    /\ policy = LoadPolicy(PolicyDoc(NoRateLimit)).policy
    /\ env = Stepping(Scenario(2, TRUE, NodeNames, {MaxThreshold}, MaxTime))
    /\ InitEngine

NextClock ==
    \/ \E a \in Alerts, node \in NodeNames, entropy \in Thresholds :
          ExecuteCutAsync(a, node, entropy)
    \/ \E a \in Alerts : Lock(a)
    \/ \E a \in Alerts : Admit(a)
    \/ \E a \in Alerts : ExecStart(a)
    \/ \E a \in Alerts, err \in AllBackendErrors : BackendReturn(a, err)
    \/ \E a \in Alerts : Decide(a)
    \/ \E a \in Alerts : Return(a)
    \/ Tick
    \/ ClockStep

SpecClock == InitClock /\ [][NextClock]_vars

----------------------------------------------------------------------------
(* api: POST /api/v1/cut, the HMAC middleware and the webhook handler      *)

\* HMAC-SHA256 of a payload under a key, as the pair it is a function of.
Mac(payload, key) == <<payload, key>>

\* The request body {node, entropy}.
CutRequest(node, entropy) == [Node |-> node, Entropy |-> entropy]

\* The X-Lachesis-Signature headers a client can send with a body: none
\* (<<>>), a text without "=", hex under another scheme, sha256= followed by
\* text that is not hex, by the hex of a MAC under another key, by the hex of
\* the MAC under the configured secret; and, for the check of the signature
\* alone, the scheme in capitals, sha256= followed by nothing, by the hex of
\* the MAC of another payload.  A header is the list SplitN gives.
Hex(bytes) == [hex |-> TRUE, bytes |-> bytes]
NotHex == [hex |-> FALSE, bytes |-> <<>>]

HeaderKinds == {"missing", "junk", "sha1", "nothex", "otherkey", "signed"}

Header(kind, body) ==
    CASE kind = "missing" -> <<>>
      [] kind = "junk" -> <<"junk">>
      [] kind = "sha1" -> <<"sha1", Hex(Mac(body, env.secret))>>
      [] kind = "nothex" -> <<"sha256", NotHex>>
      [] kind = "otherkey" -> <<"sha256", Hex(Mac(body, "other"))>>
      [] kind = "signed" -> <<"sha256", Hex(Mac(body, env.secret))>>
      [] kind = "scheme" -> <<"SHA256", Hex(Mac(body, env.secret))>>
      [] kind = "nodigits" -> <<"sha256", Hex(<<>>)>>
      [] kind = "otherbody" -> <<"sha256", Hex(Mac(<<>>, env.secret))>>

\* Mutant of verifySignature: the scheme before "=" is not compared.
verifySignatureAnyScheme(payload, signature) ==
    IF env.secret = "" THEN TRUE
    ELSE IF Len(signature) # 2 THEN FALSE
    ELSE IF ~signature[2].hex THEN FALSE
    ELSE Mac(payload, env.secret) = signature[2].bytes

\* Mutant of verifySignature: the MAC is not compared.
verifySignatureAnyMac(payload, signature) ==
    IF env.secret = "" THEN TRUE
    ELSE IF Len(signature) # 2 \/ signature[1] # "sha256" THEN FALSE
    ELSE IF ~signature[2].hex THEN FALSE
    ELSE TRUE

\* WebhookHandler.verifySignature
verifySignature(payload, signature) ==
    IF env.secret = "" THEN TRUE
    ELSE IF Len(signature) # 2 \/ signature[1] # "sha256" THEN FALSE
    ELSE IF ~signature[2].hex THEN FALSE
    ELSE Mac(payload, env.secret) = signature[2].bytes

\* WebhookHandler.hmacMiddleware: the status it aborts with, 0 when it calls
\* the handler.
hmacMiddleware(body, signature) ==
    IF signature = <<>> THEN 401
    ELSE IF ~verifySignature(body, signature) THEN 403
    ELSE 0

\* c.ShouldBindJSON(&req) with binding:"required" on node and
\* binding:"required,gte=0,lte=1" on entropy: `required` rejects the zero
\* value of the field's type.
ShouldBindJSON(body) ==
    /\ body.Node # ""
    /\ body.Entropy # 0
    /\ body.Entropy >= 0
    /\ body.Entropy <= MaxThreshold

CutResponse(result) ==
    [Node |-> result.Target, Action |-> result.Action,
     Success |-> result.Success, Error |-> result.Error,
     LatencyMs |-> result.LatencyMs]

\* A POST /api/v1/cut request arrives: the middleware, then handleCut up to
\* its select: the binding, and ExecuteCutAsync with the request's context.
handleCut(a, signature, node, entropy) ==
    /\ env.web
    /\ http[a].state = "none"
    /\ \A b \in 1..(a - 1) : http[b].state # "none"
    /\ a <= env.alerts
    /\ node \in env.nodes
    /\ entropy \in env.entropies
    /\ LET body == CutRequest(node, entropy)
           status == hmacMiddleware(body, signature)
       IN IF status # 0
          THEN /\ http' = [http EXCEPT ![a] =
                              Handler("done", status, NoResult, now,
                                      Request(body, signature))]
               /\ UNCHANGED <<pc, req>>
          ELSE IF ~ShouldBindJSON(body)
          THEN /\ http' = [http EXCEPT ![a] =
                              Handler("done", 400, NoResult, now,
                                      Request(body, signature))]
               /\ UNCHANGED <<pc, req>>
          ELSE /\ http' = [http EXCEPT ![a] =
                              Handler("select", 0, NoResult, now,
                                      Request(body, signature))]
               /\ pc' = [pc EXCEPT ![a] = "lock"]
               /\ req' = [req EXCEPT ![a] = [node |-> node, entropy |-> entropy]]
    /\ UNCHANGED <<policy, env, now, wall, mu, nodeCounts, files, cur, start,
                   last, ch, journal, invocations, admission, limiter, gate,
                   events, closed, sent, cancelled, sel>>
    /\ UNCHANGED apiVars

\* Mutant of Receive: the handler answers 200 whatever the result.
ReceiveAlwaysOK(a) ==
    /\ http[a].state = "select"
    /\ ch[a] # <<>>
    /\ LET result == Head(ch[a])
       IN http' = [http EXCEPT ![a] =
                      Handler("done", 200, CutResponse(result), http[a].since,
                              http[a].request)]
    /\ ch' = [ch EXCEPT ![a] = Tail(ch[a])]
    /\ cancelled' = [cancelled EXCEPT ![a] = TRUE]
    /\ UNCHANGED <<policy, env, now, wall, mu, nodeCounts, files, pc, req, cur,
                   start, last, journal, invocations, admission, limiter, gate,
                   events, closed, sent, sel>>
    /\ UNCHANGED apiVars

\* handleCut's select receives the result: 200 or 500 with the result as
\* body; the handler returns, which ends the request's context.
Receive(a) ==
    /\ http[a].state = "select"
    /\ ch[a] # <<>>
    /\ LET result == Head(ch[a])
       IN http' = [http EXCEPT ![a] =
                      Handler("done", IF result.Success THEN 200 ELSE 500,
                              CutResponse(result), http[a].since,
                              http[a].request)]
    /\ ch' = [ch EXCEPT ![a] = Tail(ch[a])]
    /\ cancelled' = [cancelled EXCEPT ![a] = TRUE]
    /\ UNCHANGED <<policy, env, now, wall, mu, nodeCounts, files, pc, req, cur,
                   start, last, journal, invocations, admission, limiter, gate,
                   events, closed, sent, sel>>
    /\ UNCHANGED apiVars

\* handleCut's select takes time.After(35 s): 504; the handler returns,
\* which ends the request's context.
Timeout(a) ==
    /\ http[a].state = "select"
    /\ now - http[a].since >= Ceiling
    /\ http' = [http EXCEPT ![a] =
                   Handler("done", 504, NoResult, http[a].since, http[a].request)]
    /\ cancelled' = [cancelled EXCEPT ![a] = TRUE]
    /\ UNCHANGED <<policy, env, now, wall, mu, nodeCounts, files, pc, req, cur,
                   start, last, ch, journal, invocations, admission, limiter,
                   gate, events, closed, sent, sel>>
    /\ UNCHANGED apiVars

\* The client closes its connection while the handler waits: the server ends
\* the request's context.
Disconnect(a) ==
    /\ http[a].state = "select"
    /\ ~cancelled[a]
    /\ cancelled' = [cancelled EXCEPT ![a] = TRUE]
    /\ UNCHANGED <<policy, env, now, wall, mu, nodeCounts, files, pc, req, cur,
                   start, last, ch, journal, invocations, admission, limiter,
                   gate, events, closed, sent, http, sel>>
    /\ UNCHANGED apiVars

\* The request streams: one request of any kind, with and without a
\* configured secret, and on a host whose disk and notifier can fail; two
\* concurrent signed requests for the same node.
WebRuns ==
    { Posted(Scenario(1, FALSE, NodeNames, Thresholds, MaxTime), "secret"),
      Posted(Scenario(1, FALSE, {"athena"}, {MaxThreshold}, 1), "") }
    \cup
    { Posted(Faulty(Scenario(1, FALSE, {"athena"}, {1, MaxThreshold}, 0),
                    "enabled"), "") }
    \cup
    { Posted(Scenario(2, FALSE, {"athena"}, {MaxThreshold}, MaxTime), "secret") }

InitHttp ==
    /\ env \in WebRuns
    /\ LoadPolicy(PolicyDoc(NoRateLimit)).ok
    /\ policy = LoadPolicy(PolicyDoc(NoRateLimit)).policy
    /\ InitEngine

NextHttp ==
    \/ \E a \in Alerts, kind \in HeaderKinds, node \in NodeNames,
          entropy \in Thresholds :
          handleCut(a, Header(kind, CutRequest(node, entropy)), node, entropy)
    \/ \E a \in Alerts : Lock(a)
    \/ \E a \in Alerts : Admit(a)
    \/ \E a \in Alerts : ExecStart(a)
    \/ \E a \in Alerts, err \in AllBackendErrors : BackendReturn(a, err)
    \/ \E a \in Alerts : Decide(a)
    \/ \E a \in Alerts : Return(a)
    \/ \E a \in Alerts : Receive(a)
    \/ \E a \in Alerts : Timeout(a)
    \/ \E a \in Alerts : Disconnect(a)
    \/ Tick

SpecHttp == InitHttp /\ [][NextHttp]_vars

----------------------------------------------------------------------------
(* Every failure chain: one alert on a node whose three strategies carry   *)
(* every combination of the critical flag and of on_failure (none, the     *)
(* action of any strategy of the node, the node's own strategy, an action  *)
(* no strategy has), the lowest strategy with or without a cutter.         *)

ChainActions == <<"docker_pause_all", "ssh_isolate_network", "vbox_poweroff">>

OnFailures == {"", "missing"} \cup {ChainActions[i] : i \in 1..3}

ChainDocs ==
    { [hermes |->
         NodePolicy(<<Strategy(2, ChainActions[2], c[2], f[2]),
                      Strategy(1, low, c[1], f[1]),
                      Strategy(3, ChainActions[3], c[3], f[3])>>,
                    <<>>, NoRateLimit)] :
        c \in [1..3 -> BOOLEAN], f \in [1..3 -> OnFailures],
        low \in {ChainActions[1], "reboot"} }

InitChain ==
    /\ \E doc \in ChainDocs :
          /\ LoadPolicy(doc).ok
          /\ policy = LoadPolicy(doc).policy
    /\ env = Scenario(1, TRUE, {"hermes"}, 1..MaxThreshold, 1)
    /\ InitEngine

SpecChain == InitChain /\ [][Next]_vars

----------------------------------------------------------------------------
(* The selector on every policy: a node whose strategies are declared in   *)
(* any order with any thresholds is loaded and queried with any entropy.   *)

SelectActions == <<"docker_pause_all", "docker_stop_all", "docker_kill_all",
                   "vbox_reset">>

\* The strategy lists a policy file can declare, the i-th with its own action.
DeclaredStrategies ==
    UNION { { [i \in 1..n |-> Strategy(t[i], SelectActions[i], FALSE, "")] :
                t \in [1..n -> Thresholds] } : n \in 1..MaxStrategies }

\* Load the policy declaring these strategies for one node and select.
SelectQuery(declared, entropy) ==
    /\ sel = <<>>
    /\ LET loaded == LoadPolicy([node |-> NodePolicy(declared, <<>>, NoRateLimit)])
       IN /\ loaded.ok
          /\ sel' = <<[declared |-> declared,
                       strategies |-> loaded.policy["node"].Strategies,
                       entropy |-> entropy,
                       picked |-> SelectStrategy(loaded.policy["node"], entropy)]>>
    /\ UNCHANGED <<policy, env, now, wall, mu, nodeCounts, files, pc, req, cur,
                   start, last, ch, journal, invocations, admission, limiter,
                   gate, events, closed, sent>>
    /\ UNCHANGED webVars
    /\ UNCHANGED apiVars

InitSelect ==
    /\ policy = <<>>
    /\ env = Scenario(0, TRUE, {}, {}, 0)
    /\ InitEngine

NextSelect ==
    \E declared \in DeclaredStrategies, entropy \in Thresholds :
        SelectQuery(declared, entropy)

SpecSelect == InitSelect /\ [][NextSelect]_vars

----------------------------------------------------------------------------
(* The signature check alone: a server configured with any secret, the     *)
(* empty one included, verifies any header against any body.               *)

Secrets == {"", "secret", "other"}

VerifyKinds == HeaderKinds \cup {"scheme", "nodigits", "otherbody"}

\* One call of the middleware's check: the verdict of verifySignature and
\* the status the middleware answers with.
Verify(kind, node, entropy) ==
    /\ verified = <<>>
    /\ LET body == CutRequest(node, entropy)
           signature == Header(kind, body)
       IN verified' = <<[secret |-> env.secret,
                         payload |-> body,
                         signature |-> signature,
                         accepted |-> verifySignature(body, signature),
                         status |-> hmacMiddleware(body, signature)]>>
    /\ UNCHANGED engineVars
    /\ UNCHANGED webVars
    /\ UNCHANGED <<dry, listing, correlated, imports, boot, rw, callers, mttr, revert, remote>>

InitVerify ==
    /\ policy = <<>>
    /\ \E secret \in Secrets :
          env = Posted(Scenario(0, TRUE, NodeNames, Thresholds, 0), secret)
    /\ InitEngine

NextVerify ==
    \E kind \in VerifyKinds, node \in NodeNames, entropy \in Thresholds :
        Verify(kind, node, entropy)

SpecVerify == InitVerify /\ [][NextVerify]_vars

----------------------------------------------------------------------------
(* api: POST /api/v1/cut/dryrun beside the engine                          *)

DryRunResponse(node, entropy, action, wouldExecute, threshold, critical) ==
    [Node |-> node, Entropy |-> entropy, Action |-> action,
     WouldExecute |-> wouldExecute, Threshold |-> threshold,
     Critical |-> critical]

\* Mutant of handleDryRun: the preview is counted by the rate limiter.
handleDryRunCounted(node, entropy) ==
    /\ Len(dry) < 1
    /\ LET got == GetNode(node)
           picked == SelectStrategy(got.node, entropy)
       IN /\ dry' = Append(dry,
               IF ~ShouldBindJSON(CutRequest(node, entropy))
               THEN [status |-> 400, node |-> node, entropy |-> entropy,
                     body |-> None]
               ELSE IF ~got.ok
               THEN [status |-> 404, node |-> node, entropy |-> entropy,
                     body |-> None]
               ELSE IF ~picked.ok
               THEN [status |-> 200, node |-> node, entropy |-> entropy,
                     body |-> DryRunResponse(node, entropy, "none", FALSE, 0, FALSE)]
               ELSE [status |-> 200, node |-> node, entropy |-> entropy,
                     body |-> DryRunResponse(node, entropy,
                                             picked.strategy.Action, TRUE,
                                             picked.strategy.Threshold,
                                             picked.strategy.Critical)])
          /\ nodeCounts' = IF got.ok
                           THEN checkRateLimit(nodeCounts, node,
                                               got.node.RateLimit, now).counts
                           ELSE nodeCounts
    /\ UNCHANGED <<policy, env, now, wall, mu, files, pc, req, cur, start,
                   last, ch, journal, invocations, admission, limiter, gate,
                   events, closed, sent, sel>>
    /\ UNCHANGED webVars
    /\ UNCHANGED <<verified, listing, correlated, imports, boot, rw, callers, mttr, revert, remote>>

\* Routes.handleDryRun: the binding of DryRunRequest (the tags of CutRequest),
\* the node lookup, the selector, the response.  The executor's policy is
\* never nil, so the 500 of line 243 is not answered.
handleDryRun(node, entropy) ==
    /\ Len(dry) < 1
    /\ LET got == GetNode(node)
           picked == SelectStrategy(got.node, entropy)
       IN /\ dry' = Append(dry,
               IF ~ShouldBindJSON(CutRequest(node, entropy))
               THEN [status |-> 400, node |-> node, entropy |-> entropy,
                     body |-> None]
               ELSE IF ~got.ok
               THEN [status |-> 404, node |-> node, entropy |-> entropy,
                     body |-> None]
               ELSE IF ~picked.ok
               THEN [status |-> 200, node |-> node, entropy |-> entropy,
                     body |-> DryRunResponse(node, entropy, "none", FALSE, 0, FALSE)]
               ELSE [status |-> 200, node |-> node, entropy |-> entropy,
                     body |-> DryRunResponse(node, entropy,
                                             picked.strategy.Action, TRUE,
                                             picked.strategy.Threshold,
                                             picked.strategy.Critical)])
          /\ nodeCounts' = nodeCounts
    /\ UNCHANGED <<policy, env, now, wall, mu, files, pc, req, cur, start,
                   last, ch, journal, invocations, admission, limiter, gate,
                   events, closed, sent, sel>>
    /\ UNCHANGED webVars
    /\ UNCHANGED <<verified, listing, correlated, imports, boot, rw, callers, mttr, revert, remote>>

\* Two alerts, one at a time, on every node under a rate limit of one cut,
\* and a dry run at any moment.
InitDryRun ==
    /\ LoadPolicy(PolicyDoc(RateLimit(1, MaxWindow))).ok
    /\ policy = LoadPolicy(PolicyDoc(RateLimit(1, MaxWindow))).policy
    /\ env = Scenario(2, TRUE, NodeNames, {MaxThreshold}, 1)
    /\ InitEngine

NextDryRun ==
    \/ \E a \in Alerts, node \in NodeNames, entropy \in Thresholds :
          ExecuteCutAsync(a, node, entropy)
    \/ \E a \in Alerts : Lock(a)
    \/ \E a \in Alerts : Admit(a)
    \/ \E a \in Alerts : ExecStart(a)
    \/ \E a \in Alerts, err \in AllBackendErrors : BackendReturn(a, err)
    \/ \E a \in Alerts : Decide(a)
    \/ \E a \in Alerts : Return(a)
    \/ Tick
    \/ \E node \in NodeNames, entropy \in Thresholds : handleDryRun(node, entropy)

SpecDryRun == InitDryRun /\ [][NextDryRun]_vars

----------------------------------------------------------------------------
(* history: reading the journal                                            *)

\* os.ReadDir: the entries of the directory sorted by filename,
\* cut_<unix>_<node>.json.gz, the unix seconds of one length.
RECURSIVE ReadDir(_)
ReadDir(dir) ==
    IF DOMAIN dir = {} THEN <<>>
    ELSE LET rank(id) == id.unix * 4 +
                         (CASE id.node = "athena" -> 0
                            [] id.node = "ghost" -> 1
                            [] id.node = "hermes" -> 2
                            [] OTHER -> 3)
             first == CHOOSE id \in DOMAIN dir :
                          \A other \in DOMAIN dir : rank(id) <= rank(other)
         IN <<first>> \o ReadDir([id \in DOMAIN dir \ {first} |-> dir[id]])

\* HistoryManager.LoadCut: the record of the file, an error when the file is
\* missing or does not decode.
LoadCut(dir, id) ==
    IF id \in DOMAIN dir /\ dir[id].decodable
    THEN [ok |-> TRUE, record |-> dir[id].record]
    ELSE [ok |-> FALSE, record |-> None]

\* Mutant of After: the comparison of an ascending sort.
Before(x, y) == x.Timestamp < y.Timestamp

\* The comparison of ListCuts' sort.Slice: records[i].Timestamp.After(...).
After(x, y) == x.Timestamp > y.Timestamp

\* sort.Slice on the records, the insertion sort of buildIndex's sort under
\* this comparison.
RECURSIVE insertCut(_, _)
insertCut(s, x) ==
    IF s # <<>> /\ After(x, s[Len(s)])
    THEN Append(insertCut(SubSeq(s, 1, Len(s) - 1), x), s[Len(s)])
    ELSE Append(s, x)

RECURSIVE sortCuts(_)
sortCuts(s) ==
    IF s = <<>> THEN <<>>
    ELSE insertCut(sortCuts(SubSeq(s, 1, Len(s) - 1)), s[Len(s)])

\* HistoryManager.ListCuts: the entries that load, sorted, cut to the limit.
ListCuts(dir, limit) ==
    LET entries == SelectSeq(ReadDir(dir), LAMBDA id : LoadCut(dir, id).ok)
        records == sortCuts([i \in DOMAIN entries |-> LoadCut(dir, entries[i]).record])
    IN IF limit > 0 /\ Len(records) > limit
       THEN SubSeq(records, 1, limit)
       ELSE records

\* HistoryManager.ListCutsByNode
ListCutsByNode(dir, node, limit) ==
    LET nodeCuts == SelectSeq(ListCuts(dir, 0), LAMBDA cut : cut.Node = node)
    IN IF limit > 0 /\ Len(nodeCuts) > limit
       THEN SubSeq(nodeCuts, 1, limit)
       ELSE nodeCuts

\* The journals of two nodes: any files the engine can have written at the
\* times of the model, each whole or broken off.
Directories ==
    LET written == {File(CutRecord(n, 0, EmptyStrategy, NoResult, t), d) :
                       n \in {"athena", "hermes"}, t \in 0..MaxTime, d \in BOOLEAN}
        ids == {f.record.ID : f \in written}
    IN {dir \in UNION {[names -> written] : names \in SUBSET ids} :
           \A id \in DOMAIN dir : dir[id].record.ID = id}

\* GET /api/v1/cuts/history: one ListCuts call on a journal.
listCuts(dir, limit) ==
    /\ listing = <<>>
    /\ listing' = <<[dir |-> dir, limit |-> limit, cuts |-> ListCuts(dir, limit)]>>
    /\ UNCHANGED engineVars
    /\ UNCHANGED webVars
    /\ UNCHANGED <<verified, dry, correlated, imports, boot, rw, callers, mttr, revert, remote>>

InitList ==
    /\ policy = <<>>
    /\ env = Scenario(0, TRUE, {}, {}, 0)
    /\ InitEngine

NextList ==
    \E dir \in Directories, limit \in (0 - 1)..MaxStrategies : listCuts(dir, limit)

SpecList == InitList /\ [][NextList]_vars

----------------------------------------------------------------------------
(* correlation: audit findings against cuts                                *)

\* The timestamp text of a finding and what time.Parse(time.RFC3339, ...)
\* makes of it: RFC3339 text of the instant t, or text that does not parse.
RFC3339(t) == [ok |-> TRUE, t |-> t]
BadTime == [ok |-> FALSE, t |-> 0]

ClothoFinding(controlID, collectorType, node, passed, timestamp) ==
    [ControlID |-> controlID, CollectorType |-> collectorType, Node |-> node,
     Passed |-> passed, Timestamp |-> timestamp]

CutReference(id, timestamp, action, success) ==
    [ID |-> id, Timestamp |-> timestamp, Action |-> action, Success |-> success]

\* Mutant of matchedCut: the last cut in the window that fits is taken.
matchedCutLast(finding, cutsInWindow, timeWindow) ==
    LET fits == {j \in DOMAIN cutsInWindow :
                    /\ cutsInWindow[j].Timestamp - finding.Timestamp.t >= 0
                    /\ cutsInWindow[j].Timestamp - finding.Timestamp.t <= timeWindow}
    IN IF ~finding.Timestamp.ok \/ fits = {} THEN 0
       ELSE CHOOSE j \in fits : \A k \in fits : k <= j

\* The inner loop of Correlate for one failed finding: the index of the cut
\* it breaks at, 0 when the timestamp does not parse or no cut fits.
matchedCut(finding, cutsInWindow, timeWindow) ==
    IF ~finding.Timestamp.ok THEN 0
    ELSE FirstIndex({j \in DOMAIN cutsInWindow :
                        /\ cutsInWindow[j].Timestamp - finding.Timestamp.t >= 0
                        /\ cutsInWindow[j].Timestamp - finding.Timestamp.t <= timeWindow})

\* Mutant of effectiveness: the division is not guarded.
effectivenessUnguarded(resolved, failedFindings) ==
    [num |-> Len(resolved) * 100, den |-> Len(failedFindings)]

\* float64(len(resolved)) / float64(len(failedFindings)) * 100, or 0.0: the
\* quotient num / den.
effectiveness(resolved, failedFindings) ==
    IF Len(failedFindings) > 0
    THEN [num |-> Len(resolved) * 100, den |-> Len(failedFindings)]
    ELSE [num |-> 0, den |-> 1]

\* Mutant of sameFinding: a finding is known by its control alone.
sameFindingByControl(corr, finding) ==
    corr.Finding.ControlID = finding.ControlID

\* The test by which Correlate looks a failed finding up among the
\* remediated ones: control, collector and timestamp as written.
sameFinding(corr, finding) ==
    /\ corr.Finding.ControlID = finding.ControlID
    /\ corr.Finding.CollectorType = finding.CollectorType
    /\ corr.Finding.Timestamp = finding.Timestamp

RECURSIVE Concat(_)
Concat(lists) ==
    IF lists = <<>> THEN <<>> ELSE Head(lists) \o Concat(Tail(lists))

\* Correlator.Correlate at the clock reading t, over the reports in the order
\* ListReports gives them and the cut references of the correlator.
Correlate(reports, cutRefs, node, timeWindow, t) ==
    LET failedFindings ==
            SelectSeq(Concat(reports),
                      LAMBDA finding : finding.Node = node /\ ~finding.Passed)
        cutsInWindow == SelectSeq(cutRefs, LAMBDA cut : cut.Timestamp > t - timeWindow)
        matched == SelectSeq(failedFindings,
                             LAMBDA finding :
                                 matchedCut(finding, cutsInWindow, timeWindow) # 0)
        resolved ==
            [i \in DOMAIN matched |->
                LET cut == cutsInWindow[matchedCut(matched[i], cutsInWindow, timeWindow)]
                IN [Finding |-> matched[i],
                    Cut |-> cut,
                    TimeDelta |-> cut.Timestamp - matched[i].Timestamp.t,
                    Resolved |-> cut.Success]]
        unresolved ==
            SelectSeq(failedFindings,
                      LAMBDA finding :
                          ~\E i \in DOMAIN resolved :
                              sameFinding(resolved[i], finding))
    IN [Findings |-> failedFindings,
        Cuts |-> cutsInWindow,
        Remediated |-> resolved,
        Unresolved |-> unresolved,
        Effectiveness |-> effectiveness(resolved, failedFindings)]

\* The findings of the model: failed and passed ones of the node asked for,
\* failed ones of another node, at any time or with a timestamp that does
\* not parse; the reports: one of up to two findings, alone or with a second.
Findings ==
    {ClothoFinding("AC-1", "ssh", f[1], f[2], ts) :
        f \in {<<"athena", FALSE>>, <<"athena", TRUE>>, <<"hermes", FALSE>>},
        ts \in {RFC3339(t) : t \in 0..MaxTime} \cup {BadTime}}

ReportLists ==
    LET first == {<<>>} \cup {<<f>> : f \in Findings}
                        \cup {<<f, g>> : f, g \in Findings}
        second == {<<ClothoFinding("AC-2", "ssh", "athena", FALSE, ts)>> :
                      ts \in {RFC3339(0), RFC3339(MaxTime), BadTime}}
    IN {<<r>> : r \in first} \cup {<<r, s>> : r \in first, s \in second}

CutRefLists ==
    LET refs == {CutReference(RecordID(t, "athena"), t, "docker_pause_all", ok) :
                    t \in 1..MaxTime, ok \in BOOLEAN}
    IN {<<>>} \cup {<<c>> : c \in refs} \cup {<<c, d>> : c, d \in refs}

\* One Correlate call for athena at the end of the run.
correlate(reports, cutRefs, timeWindow) ==
    /\ correlated = <<>>
    /\ correlated' = <<[reports |-> reports, cutRefs |-> cutRefs,
                        node |-> "athena", timeWindow |-> timeWindow,
                        at |-> MaxTime,
                        result |-> Correlate(reports, cutRefs, "athena",
                                             timeWindow, MaxTime)]>>
    /\ UNCHANGED engineVars
    /\ UNCHANGED webVars
    /\ UNCHANGED <<verified, dry, listing, imports, boot, rw, callers, mttr, revert, remote>>

NextCorrelate ==
    /\ correlated = <<>>
    /\ \E reports \in ReportLists, cutRefs \in CutRefLists,
          timeWindow \in 0..MaxWindow + 1 :
          correlate(reports, cutRefs, timeWindow)

SpecCorrelate == InitList /\ [][NextCorrelate]_vars

----------------------------------------------------------------------------
(* api: POST /api/v1/correlation/import and GET /api/v1/correlation/:node  *)
(* beside the engine                                                       *)

ClothoReport(auditID, findings) == [AuditID |-> auditID, Findings |-> findings]

\* NewClothoImporter: the empty map audit id -> report.
NewClothoImporter == <<>>

\* ClothoImporter.ImportReport: the importer after a report that decodes.
ImportReport(importer, report) == Put(importer, report.AuditID, report.Findings)

\* ClothoImporter.ListReports on an importer of at most one report, which is
\* all a handler's importer holds; the order of more is the map's.
ListReports(importer) ==
    [i \in 1..Cardinality(DOMAIN importer) |->
        importer[CHOOSE id \in DOMAIN importer : TRUE]]

\* The audit reports a client posts: failed findings of athena at the start
\* of the run and later, a passed one, one of another node.
AuditReports ==
    {ClothoReport("audit-1",
                  <<ClothoFinding("AC-1", "ssh", "athena", FALSE, RFC3339(0)),
                    ClothoFinding("AC-2", "ssh", "athena", FALSE, RFC3339(MaxTime)),
                    ClothoFinding("AC-3", "ssh", "athena", TRUE, RFC3339(0))>>),
     ClothoReport("audit-2",
                  <<ClothoFinding("AC-1", "ssh", "hermes", FALSE, RFC3339(0))>>)}

\* Routes.importClothoReport: an importer of its own takes the report, and
\* the response tells what it took.
importClothoReport(report) ==
    /\ Len(imports) < 1
    /\ LET importer == ImportReport(NewClothoImporter, report)
       IN imports' = Append(imports,
                        [status |-> 200, audit_id |-> report.AuditID,
                         findings_count |-> Len(importer[report.AuditID]),
                         report |-> report])
    /\ UNCHANGED engineVars
    /\ UNCHANGED webVars
    /\ UNCHANGED <<verified, dry, listing, correlated, boot, rw, callers, mttr, revert, remote>>

\* Routes.getCorrelation: an importer of its own, the node's cuts from the
\* journal, Correlate, the response; `imported` notes the imports answered
\* before.
getCorrelation(node, hours) ==
    /\ Len(correlated) < 1
    /\ LET importer == NewClothoImporter
           cuts == ListCutsByNode(files, node, 0)
           cutRefs == [i \in DOMAIN cuts |->
                          CutReference(cuts[i].ID, cuts[i].Timestamp,
                                       cuts[i].Action, cuts[i].Success)]
           result == Correlate(ListReports(importer), cutRefs, node,
                               hours * 60 * Minute, wall)
       IN correlated' = Append(correlated,
                           [status |-> 200, node |-> node, imported |-> Len(imports),
                            effectiveness |-> result.Effectiveness,
                            total_findings |-> Len(result.Findings),
                            remediated |-> Len(result.Remediated),
                            unresolved |-> Len(result.Unresolved),
                            result |-> result])
    /\ UNCHANGED engineVars
    /\ UNCHANGED webVars
    /\ UNCHANGED <<verified, dry, listing, imports, boot, rw, callers, mttr, revert, remote>>

\* One alert on athena, an import and a correlation read at any moment.
InitCorrelation ==
    /\ LoadPolicy(PolicyDoc(NoRateLimit)).ok
    /\ policy = LoadPolicy(PolicyDoc(NoRateLimit)).policy
    /\ env = Scenario(1, TRUE, {"athena"}, {MaxThreshold}, 1)
    /\ InitEngine

NextCorrelation ==
    \/ \E a \in Alerts, node \in NodeNames, entropy \in Thresholds :
          ExecuteCutAsync(a, node, entropy)
    \/ \E a \in Alerts : Lock(a)
    \/ \E a \in Alerts : Admit(a)
    \/ \E a \in Alerts : ExecStart(a)
    \/ \E a \in Alerts, err \in AllBackendErrors : BackendReturn(a, err)
    \/ \E a \in Alerts : Decide(a)
    \/ \E a \in Alerts : Return(a)
    \/ Tick
    \/ \E report \in AuditReports : importClothoReport(report)
    \/ \E node \in NodeNames, hours \in {0, 24} : getCorrelation(node, hours)

SpecCorrelation == InitCorrelation /\ [][NextCorrelation]_vars

----------------------------------------------------------------------------
(* policy: LoadPolicy over the documents a policy file may hold *)

\* The thresholds a file may give: below 0, 1, above 1, no number.
FileThresholds == {0 - 1, MaxThreshold, MaxThreshold + 1, NaN}

FileStrategies ==
    UNION { [1..n -> { Strategy(t, a, FALSE, "") :
                         t \in FileThresholds, a \in {"", "docker_pause_all"} }] :
            n \in 0..2 }

\* The documents: no node, one node, two nodes.
FileDocs ==
    UNION { [names -> { NodePolicy(s, <<>>, NoRateLimit) : s \in FileStrategies }] :
            names \in SUBSET {"athena", "hermes"} }

\* main's LoadPolicy of the file: the policy, or the error main dies of.
Load(doc) ==
    /\ \E err \in (IF validate(doc) THEN {NoError} ELSE validateErrors(doc)) :
          boot' = <<[doc |-> doc, ok |-> LoadPolicy(doc).ok, err |-> err,
                     policy |-> LoadPolicy(doc).policy]>>
    /\ UNCHANGED engineVars
    /\ UNCHANGED webVars
    /\ UNCHANGED <<verified, dry, listing, correlated, imports, rw, callers, mttr, revert, remote>>

NextLoad == boot = <<>> /\ \E doc \in FileDocs : Load(doc)

SpecLoad == InitList /\ [][NextLoad]_vars

----------------------------------------------------------------------------
(* history: the journal's sync.RWMutex under concurrent callers *)

\* rw is HistoryManager.mu: the readers holding it, the writer that has
\* called Lock and not yet Unlock (0 for none), and the readers parked in
\* RLock because a writer was there. callers are the calls of the journal,
\* each with its position, the directory entries it still has to load and
\* the records it loaded.
Call(op, limit, record, retentionDays) ==
    [op |-> op, limit |-> limit, record |-> record,
     retentionDays |-> retentionDays,
     pc |-> IF op = "ListCuts" THEN "RLock" ELSE "Lock",
     entries |-> <<>>, records |-> <<>>]

\* The zero CutRecord, in the calls that take none.
NoRecord == CutRecord("", 0, EmptyStrategy, NoResult, 0)

\* The record an ExecuteCut journals for a node.
Journalled(node) ==
    CutRecord(node, MaxThreshold,
              Strategy(MaxThreshold, "docker_pause_all", TRUE, ""),
              CutResult(node, "docker_pause_all", TRUE, "", 0), wall)

\* A goroutine calls ListCuts (as ListCutsByNode and GetStats do, with limit
\* 0), SaveCut or PurgeOldCuts.
Enter(call) ==
    /\ Len(callers) < NumConcurrent
    /\ callers' = Append(callers, call)
    /\ UNCHANGED engineVars
    /\ UNCHANGED webVars
    /\ UNCHANGED <<verified, dry, listing, correlated, imports, boot, rw, mttr, revert, remote>>

\* h.mu.RLock(), in ListCuts and in the LoadCut it calls: the read lock when
\* no writer has called Lock, else the caller parks until that writer's
\* Unlock.
RLock(c) ==
    /\ c \in DOMAIN callers
    /\ callers[c].pc \in {"RLock", "LoadCut.RLock"}
    /\ rw' = IF rw.writer = 0
             THEN [rw EXCEPT !.readers = @ + 1]
             ELSE [rw EXCEPT !.parked = @ \cup {c}]
    /\ callers' = [callers EXCEPT ![c].pc =
                      IF @ = "RLock" THEN "ReadDir" ELSE "LoadCut"]
    /\ UNCHANGED engineVars
    /\ UNCHANGED webVars
    /\ UNCHANGED <<verified, dry, listing, correlated, imports, boot, mttr, revert, remote>>

\* ListCuts under its read lock: os.ReadDir.
ListCutsReadDir(c) ==
    /\ c \in DOMAIN callers
    /\ callers[c].pc = "ReadDir"
    /\ c \notin rw.parked
    /\ callers' = [callers EXCEPT
                      ![c].entries = ReadDir(files),
                      ![c].pc = IF ReadDir(files) = <<>> THEN "RUnlock"
                                ELSE "LoadCut.RLock"]
    /\ UNCHANGED engineVars
    /\ UNCHANGED webVars
    /\ UNCHANGED <<verified, dry, listing, correlated, imports, boot, rw, mttr, revert, remote>>

\* LoadCut under its read lock, called by ListCuts for the next entry: the
\* file is read and LoadCut's deferred RUnlock runs.
ListCutsLoadCut(c) ==
    /\ c \in DOMAIN callers
    /\ callers[c].pc = "LoadCut"
    /\ c \notin rw.parked
    /\ LET loaded == LoadCut(files, Head(callers[c].entries))
       IN callers' = [callers EXCEPT
                         ![c].records = IF loaded.ok THEN Append(@, loaded.record)
                                        ELSE @,
                         ![c].entries = Tail(@),
                         ![c].pc = IF Tail(callers[c].entries) = <<>>
                                   THEN "RUnlock" ELSE "LoadCut.RLock"]
    /\ rw' = [rw EXCEPT !.readers = @ - 1]
    /\ UNCHANGED engineVars
    /\ UNCHANGED webVars
    /\ UNCHANGED <<verified, dry, listing, correlated, imports, boot, mttr, revert, remote>>

\* ListCuts sorts, cuts to the limit and returns: its deferred RUnlock.
ListCutsReturn(c) ==
    /\ c \in DOMAIN callers
    /\ callers[c].pc = "RUnlock"
    /\ LET records == sortCuts(callers[c].records)
       IN callers' = [callers EXCEPT
                         ![c].records =
                             IF callers[c].limit > 0 /\ Len(records) > callers[c].limit
                             THEN SubSeq(records, 1, callers[c].limit)
                             ELSE records,
                         ![c].pc = "returned"]
    /\ rw' = [rw EXCEPT !.readers = @ - 1]
    /\ UNCHANGED engineVars
    /\ UNCHANGED webVars
    /\ UNCHANGED <<verified, dry, listing, correlated, imports, boot, mttr, revert, remote>>

\* h.mu.Lock(), in SaveCut and PurgeOldCuts: the caller becomes the writer
\* once no other is, and then waits for the readers holding the lock.
WLock(c) ==
    /\ c \in DOMAIN callers
    /\ callers[c].pc = "Lock"
    /\ rw.writer = 0
    /\ rw' = [rw EXCEPT !.writer = c]
    /\ callers' = [callers EXCEPT ![c].pc = "locked"]
    /\ UNCHANGED engineVars
    /\ UNCHANGED webVars
    /\ UNCHANGED <<verified, dry, listing, correlated, imports, boot, mttr, revert, remote>>

\* HistoryManager.PurgeOldCuts on the directory: the files older than the
\* retention are removed.
PurgeOldCuts(dir, retentionDays, t) ==
    LET cutoff == t - retentionDays * DayMinutes * Minute
        kept == {id \in DOMAIN dir : ~(dir[id].record.Timestamp < cutoff)}
    IN [id \in kept |-> dir[id]]

\* SaveCut or PurgeOldCuts under the write lock, which the writer has when
\* the last reader has left, and the deferred Unlock: the parked readers
\* hold the lock.
WriteAndUnlock(c) ==
    /\ c \in DOMAIN callers
    /\ callers[c].pc = "locked"
    /\ rw.writer = c
    /\ rw.readers = 0
    /\ files' = IF callers[c].op = "SaveCut"
                THEN SaveCut(files, callers[c].record, "")
                ELSE PurgeOldCuts(files, callers[c].retentionDays, wall)
    /\ rw' = [readers |-> Cardinality(rw.parked), writer |-> 0, parked |-> {}]
    /\ callers' = [callers EXCEPT ![c].pc = "returned"]
    /\ UNCHANGED <<policy, env, now, wall, mu, nodeCounts, pc, req, cur, start,
                   last, ch, journal, invocations, admission, limiter, gate,
                   events, closed, sent, sel>>
    /\ UNCHANGED webVars
    /\ UNCHANGED <<verified, dry, listing, correlated, imports, boot, mttr, revert, remote>>

NextJournal ==
    \/ Enter(Call("ListCuts", 0, NoRecord, 0))
    \/ \E node \in {"athena", "hermes"} :
          Enter(Call("SaveCut", 0, Journalled(node), 0))
    \/ \E retentionDays \in {0 - 1, 1} :
          Enter(Call("PurgeOldCuts", 0, NoRecord, retentionDays))
    \/ \E c \in 1..NumConcurrent : RLock(c)
    \/ \E c \in 1..NumConcurrent : ListCutsReadDir(c)
    \/ \E c \in 1..NumConcurrent : ListCutsLoadCut(c)
    \/ \E c \in 1..NumConcurrent : ListCutsReturn(c)
    \/ \E c \in 1..NumConcurrent : WLock(c)
    \/ \E c \in 1..NumConcurrent : WriteAndUnlock(c)

\* The goroutines are scheduled: a call that can take a step takes one.
SpecJournal == InitList /\ [][NextJournal]_vars /\ WF_vars(NextJournal)

----------------------------------------------------------------------------
(* The engine beside a reader of the history (GET /api/v1/cuts/history on  *)
(* the same server): alerts of the highest entropy on athena, one at a     *)
(* time, each of which reaches a backend and journals in executeStrategy.  *)

\* The writer of HistoryManager.mu that is the goroutine of alert a.
Journaller(a) == NumConcurrent + a

\* logCut's SaveCut calls h.mu.Lock() for alert a, whose backend call has
\* returned: the goroutine is the writer once no other is.
SaveCutLock(a) ==
    /\ pc[a] = "backend"
    /\ rw.writer = 0
    /\ rw' = [rw EXCEPT !.writer = Journaller(a)]
    /\ UNCHANGED engineVars
    /\ UNCHANGED webVars
    /\ UNCHANGED <<verified, dry, listing, correlated, imports, boot, callers, mttr, revert, remote>>

\* executeStrategy journals under the write lock, which the goroutine has
\* when the last reader has left, and SaveCut's deferred Unlock runs.
SaveCutAndUnlock(a, err) ==
    /\ rw.writer = Journaller(a)
    /\ rw.readers = 0
    /\ executeStrategyReturns(a, err)
    /\ rw' = [readers |-> Cardinality(rw.parked), writer |-> 0, parked |-> {}]
    /\ UNCHANGED webVars
    /\ UNCHANGED <<verified, dry, listing, correlated, imports, boot, callers, mttr, revert, remote>>

\* One request for the history arrives.
listCutsCalled ==
    /\ callers = <<>>
    /\ Enter(Call("ListCuts", 0, NoRecord, 0))

InitLive ==
    /\ LoadPolicy(PolicyDoc(NoRateLimit)).ok
    /\ policy = LoadPolicy(PolicyDoc(NoRateLimit)).policy
    /\ env = Scenario(2, TRUE, {"athena"}, {MaxThreshold}, 1)
    /\ InitEngine

NextLive ==
    \/ \E a \in Alerts, node \in NodeNames, entropy \in Thresholds :
          ExecuteCutAsync(a, node, entropy)
    \/ \E a \in Alerts : Lock(a)
    \/ \E a \in Alerts : Admit(a)
    \/ \E a \in Alerts : ExecStart(a)
    \/ \E a \in Alerts : SaveCutLock(a)
    \/ \E a \in Alerts, err \in AllBackendErrors : SaveCutAndUnlock(a, err)
    \/ \E a \in Alerts : Decide(a)
    \/ \E a \in Alerts : Return(a)
    \/ Tick
    \/ listCutsCalled
    \/ \E c \in 1..NumConcurrent : RLock(c)
    \/ \E c \in 1..NumConcurrent : ListCutsReadDir(c)
    \/ \E c \in 1..NumConcurrent : ListCutsLoadCut(c)
    \/ \E c \in 1..NumConcurrent : ListCutsReturn(c)

\* The engine mutex is fair and the goroutines are scheduled: Lock returns
\* for an alert that waits while the mutex is free again and again, and
\* every other step that can be taken is taken.
SpecLive ==
    /\ InitLive
    /\ [][NextLive]_vars
    /\ WF_vars(NextLive)
    /\ \A a \in Alerts : SF_vars(Lock(a))

----------------------------------------------------------------------------
(* trends: mean time to remediation *)

MaxCuts == 3

\* The comparison of calculateMTTR's sort.Slice:
\* sorted[i].Timestamp.Before(sorted[j].Timestamp).
earlier(x, y) == x.Timestamp < y.Timestamp

\* sort.Slice on the successful cuts, the insertion sort of buildIndex's sort
\* under this comparison.
RECURSIVE insertEarlier(_, _)
insertEarlier(s, x) ==
    IF s # <<>> /\ earlier(x, s[Len(s)])
    THEN Append(insertEarlier(SubSeq(s, 1, Len(s) - 1), x), s[Len(s)])
    ELSE Append(s, x)

RECURSIVE sortEarliest(_)
sortEarliest(s) ==
    IF s = <<>> THEN <<>>
    ELSE insertEarlier(sortEarliest(SubSeq(s, 1, Len(s) - 1)), s[Len(s)])

\* The sum of the function f over the set of places S.
RECURSIVE Sum(_, _)
Sum(f, S) ==
    IF S = {} THEN 0
    ELSE LET i == CHOOSE i \in S : TRUE IN f[i] + Sum(f, S \ {i})

\* Analyzer.calculateMTTR: the nil pointer, <<>>, or the mean interval <<avg>>.
calculateMTTR(cuts) ==
    LET successfulCuts == SelectSeq(cuts, LAMBDA cut : cut.Success)
        sorted == sortEarliest(successfulCuts)
        pairs == {i \in 2..Len(sorted) : sorted[i].Node = sorted[i - 1].Node}
        interval == [i \in pairs |-> sorted[i].Timestamp - sorted[i - 1].Timestamp]
        totalInterval == Sum(interval, pairs)
        count == Cardinality(pairs)
    IN IF Len(successfulCuts) < 2 THEN <<>>
       ELSE IF count = 0 THEN <<>>
       ELSE <<totalInterval \div count>>

\* The cuts of the analysed window: of two nodes, failed or not, in any order.
RecentCuts ==
    LET cuts == {CutRecord(n, 0, EmptyStrategy, CutResult(n, "", ok, "", 0), t) :
                    n \in {"athena", "hermes"}, ok \in BOOLEAN, t \in 0..MaxTime}
    IN UNION {[1..len -> cuts] : len \in 0..MaxCuts}

\* GetGlobalTrends' call of calculateMTTR on the cuts of the window.
GetGlobalTrends(recentCuts) ==
    /\ mttr' = <<[cuts |-> recentCuts, MTTR |-> calculateMTTR(recentCuts)]>>
    /\ UNCHANGED engineVars
    /\ UNCHANGED webVars
    /\ UNCHANGED <<verified, dry, listing, correlated, imports, boot, rw, callers,
                   revert, remote>>

NextTrends == mttr = <<>> /\ \E recentCuts \in RecentCuts : GetGlobalTrends(recentCuts)

SpecTrends == InitList /\ [][NextTrends]_vars

----------------------------------------------------------------------------
(* cutter: the hypervisor backend *)

\* One exec.CommandContext(...).CombinedOutput() call: the VBoxManage
\* subcommand, whether a child process was started, and how it ended: "ok",
\* "not running" (an error whose output says the VM is not currently running)
\* or "error".
Child(cmd, vm, started, outcome) ==
    [cmd |-> cmd, vm |-> vm, started |-> started, outcome |-> outcome]

\* How a command can end: under a context that is done it is not started and
\* fails; otherwise it runs and ends in any way (killed by the context
\* included).
Outcomes(cmd) ==
    IF revert[1].done THEN {Child(cmd, revert[1].vm, FALSE, "error")}
    ELSE {Child(cmd, revert[1].vm, TRUE, o) :
             o \in IF cmd = "poweroff" THEN {"ok", "not running", "error"}
                   ELSE {"ok", "error"}}

\* The error of VBoxCutter.powerOff after its child: "" for nil.
powerOffErr(child) == IF child.outcome = "error" THEN "poweroff" ELSE ""

Returned(err) == <<err>>

vboxUnchanged ==
    /\ UNCHANGED engineVars
    /\ UNCHANGED webVars
    /\ UNCHANGED <<verified, dry, listing, correlated, imports, boot, rw, callers,
                   mttr, remote>>

\* VBoxCutter.Execute up to its first child process: the VM is
\* params["vm_name"] or else the target, and the action picks the steps.
VBoxCutterExecute(target, action, vmName, snapshotName) ==
    /\ revert = <<>>
    /\ LET vm == IF vmName = "" THEN target ELSE vmName
           call == [action |-> action, vm |-> vm, snapshot |-> snapshotName,
                    done |-> FALSE, children |-> <<>>]
       IN revert' =
            <<CASE action = "vbox_revert_snapshot" /\ snapshotName = "" ->
                      call @@ [at |-> "returned",
                               ret |-> Returned("vbox_revert_snapshot requires snapshot_name")]
                [] action = "vbox_revert_snapshot" /\ snapshotName # "" ->
                      call @@ [at |-> "revertSnapshot", ret |-> <<>>]
                [] action = "vbox_poweroff" ->
                      call @@ [at |-> "powerOff", ret |-> <<>>]
                [] action = "vbox_reset" ->
                      call @@ [at |-> "reset", ret |-> <<>>]
                [] OTHER ->
                      call @@ [at |-> "returned", ret |-> Returned("unsupported action")]>>
    /\ vboxUnchanged

\* Mutant of revertSnapshotPowerOff: a failed power-off ends the call.
revertSnapshotPowerOffChecked(child) ==
    /\ revert # <<>>
    /\ revert[1].at = "revertSnapshot"
    /\ child \in Outcomes("poweroff")
    /\ revert' = <<[revert[1] EXCEPT
                      !.children = Append(@, child),
                      !.at = IF powerOffErr(child) # "" THEN "returned" ELSE "restore",
                      !.ret = IF powerOffErr(child) # ""
                              THEN Returned(powerOffErr(child)) ELSE <<>>]>>
    /\ vboxUnchanged

\* revertSnapshot's first step, `_ = v.powerOff(ctx, vmName)`.
revertSnapshotPowerOff(child) ==
    /\ revert # <<>>
    /\ revert[1].at = "revertSnapshot"
    /\ child \in Outcomes("poweroff")
    /\ revert' = <<[revert[1] EXCEPT !.children = Append(@, child),
                                     !.at = "restore"]>>
    /\ vboxUnchanged

\* revertSnapshot's second step: VBoxManage snapshot <vm> restore <name>.
revertSnapshotRestore(child) ==
    /\ revert # <<>>
    /\ revert[1].at = "restore"
    /\ child \in Outcomes("restore")
    /\ revert' = <<[revert[1] EXCEPT
                      !.children = Append(@, child),
                      !.at = IF child.outcome # "ok" THEN "returned" ELSE "startvm",
                      !.ret = IF child.outcome # "ok"
                              THEN Returned("restore snapshot") ELSE <<>>]>>
    /\ vboxUnchanged

\* revertSnapshot's third step: VBoxManage startvm <vm> --type headless.
revertSnapshotStart(child) ==
    /\ revert # <<>>
    /\ revert[1].at = "startvm"
    /\ child \in Outcomes("startvm")
    /\ revert' = <<[revert[1] EXCEPT
                      !.children = Append(@, child),
                      !.at = "returned",
                      !.ret = IF child.outcome # "ok"
                              THEN Returned("start VM") ELSE Returned("")]>>
    /\ vboxUnchanged

\* Execute's vbox_poweroff: VBoxCutter.powerOff, its error returned.
powerOff(child) ==
    /\ revert # <<>>
    /\ revert[1].at = "powerOff"
    /\ child \in Outcomes("poweroff")
    /\ revert' = <<[revert[1] EXCEPT !.children = Append(@, child),
                                     !.at = "returned",
                                     !.ret = Returned(powerOffErr(child))]>>
    /\ vboxUnchanged

\* Execute's vbox_reset: VBoxCutter.reset.
reset(child) ==
    /\ revert # <<>>
    /\ revert[1].at = "reset"
    /\ child \in Outcomes("reset")
    /\ revert' = <<[revert[1] EXCEPT
                      !.children = Append(@, child),
                      !.at = "returned",
                      !.ret = IF child.outcome # "ok"
                              THEN Returned("reset") ELSE Returned("")]>>
    /\ vboxUnchanged

\* The context of the call is cancelled or passes its deadline.
vboxCtxDone ==
    /\ revert # <<>>
    /\ revert[1].at # "returned"
    /\ ~revert[1].done
    /\ revert' = <<[revert[1] EXCEPT !.done = TRUE]>>
    /\ vboxUnchanged

\* Every child a call can have: of any subcommand, on either VM.
Children ==
    {Child(cmd, vm, started, o) :
        cmd \in {"poweroff", "restore", "startvm", "reset"},
        vm \in {"athena", "hermes", "vm1"}, started \in BOOLEAN,
        o \in {"ok", "not running", "error"}}

NextVBox ==
    \/ \E target \in {"athena", "hermes"}, action \in VBoxActions \cup {"vbox_pause"},
          vmName \in {"", "vm1"}, snapshotName \in {"", "clean"} :
          VBoxCutterExecute(target, action, vmName, snapshotName)
    \/ \E child \in Children : revertSnapshotPowerOff(child)
    \/ \E child \in Children : revertSnapshotRestore(child)
    \/ \E child \in Children : revertSnapshotStart(child)
    \/ \E child \in Children : powerOff(child)
    \/ \E child \in Children : reset(child)
    \/ vboxCtxDone

SpecVBox == InitList /\ [][NextVBox]_vars

----------------------------------------------------------------------------
(* cutter: the shell backend *)

\* The capacity of the goroutine's result channel: make(chan error, 1).
DoneChCap == 1

\* Mutant of CanReport: the result channel is unbuffered.
CanReportUnbuffered(buf, receiving) == receiving

\* `doneCh <- v` proceeds when the buffer has room or Execute is receiving.
CanReport(buf, receiving) == Len(buf) < DoneChCap \/ receiving

shellUnchanged ==
    /\ UNCHANGED engineVars
    /\ UNCHANGED webVars
    /\ UNCHANGED <<verified, dry, listing, correlated, imports, boot, rw, callers,
                   mttr, revert>>

\* Execute returns err: the deferred Close calls run, the session's first,
\* each on what was opened before the return.
ReturnClosing(call, err) ==
    [call EXCEPT !.at = "returned",
                 !.ret = <<err>>,
                 !.running = call.goroutine = "running",
                 !.session = IF @ = "open" THEN "closed" ELSE @,
                 !.client = IF @ = "open" THEN "closed" ELSE @]

\* NetworkCutter.Execute up to the connection: the defaults of user and
\* port, and the parameters it requires.
NetworkCutterExecute(host, user, port, command) ==
    /\ remote = <<>>
    /\ LET call == [host |-> host,
                    user |-> IF user = "" THEN "root" ELSE user,
                    port |-> IF port = "" THEN "22" ELSE port,
                    command |-> command,
                    at |-> "connect", ret |-> <<>>, running |-> FALSE,
                    client |-> "none", session |-> "none",
                    doneCh |-> <<>>, goroutine |-> "none", pending |-> "",
                    ctx |-> ""]
       IN remote' = <<IF host = "" THEN ReturnClosing(call, "network cutter requires host")
                      ELSE IF command = "" THEN ReturnClosing(call, "network cutter requires command")
                      ELSE call>>
    /\ shellUnchanged

\* n.connect: the client, or the error Execute returns.
connect(err) ==
    /\ remote # <<>>
    /\ remote[1].at = "connect"
    /\ remote' = <<IF err # "" THEN ReturnClosing(remote[1], "ssh connect")
                   ELSE [remote[1] EXCEPT !.client = "open", !.at = "session"]>>
    /\ shellUnchanged

\* client.NewSession, and with a session the result channel and the command
\* goroutine.
NewSession(err) ==
    /\ remote # <<>>
    /\ remote[1].at = "session"
    /\ remote' = <<IF err # "" THEN ReturnClosing(remote[1], "ssh session")
                   ELSE [remote[1] EXCEPT !.session = "open", !.at = "select",
                                          !.goroutine = "running"]>>
    /\ shellUnchanged

\* The goroutine's session.CombinedOutput(command) returns: nil or an error
\* while the session is open, an error once it is closed.
CombinedOutput(err) ==
    /\ remote # <<>>
    /\ remote[1].goroutine = "running"
    /\ remote[1].session = "closed" => err # ""
    /\ remote' = <<[remote[1] EXCEPT !.goroutine = "sending",
                                     !.pending = IF err # "" THEN "command failed" ELSE ""]>>
    /\ shellUnchanged

\* The goroutine's `doneCh <- ...`, after which it returns.
Report ==
    /\ remote # <<>>
    /\ remote[1].goroutine = "sending"
    /\ CanReport(remote[1].doneCh, remote[1].at = "select")
    /\ remote' = <<[remote[1] EXCEPT !.doneCh = Append(@, remote[1].pending),
                                     !.goroutine = "exited"]>>
    /\ shellUnchanged

\* The select's `case <-ctx.Done(): return ctx.Err()`.
SelectCtxDone ==
    /\ remote # <<>>
    /\ remote[1].at = "select"
    /\ remote[1].ctx # ""
    /\ remote' = <<ReturnClosing(remote[1], remote[1].ctx)>>
    /\ shellUnchanged

\* The select's `case err := <-doneCh: return err`.
SelectDone ==
    /\ remote # <<>>
    /\ remote[1].at = "select"
    /\ remote[1].doneCh # <<>>
    /\ remote' = <<ReturnClosing([remote[1] EXCEPT !.doneCh = Tail(@)],
                            Head(remote[1].doneCh))>>
    /\ shellUnchanged

\* The context of the call becomes done: cancelled, or past its deadline.
shellCtxDone(err) ==
    /\ remote # <<>>
    /\ remote[1].at # "returned"
    /\ remote[1].ctx = ""
    /\ remote' = <<[remote[1] EXCEPT !.ctx = err]>>
    /\ shellUnchanged

NextShell ==
    \/ \E host \in {"", "10.0.0.1"}, user \in {"", "admin"}, port \in {"", "2222"},
          command \in {"", "ifdown eth0"} :
          NetworkCutterExecute(host, user, port, command)
    \/ \E err \in {"", "dial"} : connect(err)
    \/ \E err \in {"", "open channel"} : NewSession(err)
    \/ \E err \in {"", "exit status 1"} : CombinedOutput(err)
    \/ Report
    \/ SelectCtxDone
    \/ SelectDone
    \/ \E err \in {"context canceled", "context deadline exceeded"} : shellCtxDone(err)

SpecShell == InitList /\ [][NextShell]_vars

----------------------------------------------------------------------------
(* The order of a loaded node's strategies: any thresholds validate lets    *)
(* through, strategies sharing thresholds and actions, each one told from   *)
(* the others by its on_failure.                                            *)

Declarations == <<"first", "second", "third">>

OrderedStrategies ==
    UNION { { [i \in 1..n |-> Strategy(t[i], a[i], FALSE, Declarations[i])] :
                t \in [1..n -> Thresholds \cup {NaN}],
                a \in [1..n -> {"docker_pause_all", "vbox_reset"}] } :
            n \in 1..MaxStrategies }

\* Load the policy declaring these strategies for one node and select, by
\* entropy and by action.
OrderQuery(declared, entropy, action) ==
    /\ sel = <<>>
    /\ LET loaded == LoadPolicy([node |-> NodePolicy(declared, <<>>, NoRateLimit)])
       IN /\ loaded.ok
          /\ sel' = <<[declared |-> declared,
                       strategies |-> loaded.policy["node"].Strategies,
                       entropy |-> entropy,
                       picked |-> SelectStrategy(loaded.policy["node"], entropy),
                       action |-> action,
                       byAction |-> SelectStrategyByAction(loaded.policy["node"], action)]>>
    /\ UNCHANGED <<policy, env, now, wall, mu, nodeCounts, files, pc, req, cur,
                   start, last, ch, journal, invocations, admission, limiter,
                   gate, events, closed, sent>>
    /\ UNCHANGED webVars
    /\ UNCHANGED apiVars

NextOrder ==
    \E declared \in OrderedStrategies, entropy \in Thresholds,
       action \in {"docker_pause_all", "vbox_reset"} :
        OrderQuery(declared, entropy, action)

SpecOrder == InitSelect /\ [][NextOrder]_vars

----------------------------------------------------------------------------
(* Properties *)

\* The journal writes caused by alert a.
RecordsOf(a) == {i \in DOMAIN journal : journal[i].alert = a}

\* The executeStrategy calls of alert a that have returned, in order: each
\* journals once, under the role ExecuteCut ran it in.
Execs(a) == SelectSeq(journal, LAMBDA e : e.alert = a /\ e.role # "")

\* The backend calls made for alert a, in order.
BackendCalls(a) == SelectSeq(invocations, LAMBDA e : e.alert = a)

\* The position of alert a in the order of mutex acquisitions.
Admitted(a) == \E i \in DOMAIN admission : admission[i] = a
AdmissionIndex(a) == CHOOSE i \in DOMAIN admission : admission[i] = a

\* Alert a is inside ExecuteCut: past e.mu.Lock(), before the unlock.
InExecuteCut(a) == pc[a] \in {"admit", "exec", "backend", "decide", "return"}

StrategiesOf(node) ==
    {policy[node].Strategies[i] : i \in DOMAIN policy[node].Strategies}

Resolves(node, action) ==
    action # "" /\ \E s \in StrategiesOf(node) : s.Action = action

\* C1: every ExecuteCut call, whatever its outcome, has written exactly one
\* journal record through logCut when it returns.
ExactlyOneRecordPerCut ==
    \A a \in Alerts : pc[a] = "done" => Cardinality(RecordsOf(a)) = 1

\* C2: at most one caller is between node lookup and return, it is the holder
\* of the engine mutex, every other started caller waits on the mutex, and no
\* journal write or backend call happens while another alert's backend call
\* is in flight.
SerialisedCuts ==
    /\ \A a, b \in Alerts : InExecuteCut(a) /\ InExecuteCut(b) => a = b
    /\ \A a \in Alerts : InExecuteCut(a) <=> mu = a
    /\ \A a \in Alerts : ~InExecuteCut(a) => pc[a] \in {"idle", "lock", "done"}
    /\ \A i \in DOMAIN journal : journal[i].inflight \subseteq {journal[i].alert}
    /\ \A i \in DOMAIN invocations : invocations[i].inflight = {}

\* C2 witness: a backend call is in flight while another caller waits.
WaitingBehindBackend ==
    \E a, b \in Alerts : pc[a] = "backend" /\ pc[b] = "lock"

\* C3: journal writes follow admission order: when A acquired the mutex
\* before B, every record of A precedes every record of B.
JournalFollowsAdmission ==
    \A i, j \in DOMAIN journal :
        /\ Admitted(journal[i].alert)
        /\ AdmissionIndex(journal[i].alert) < AdmissionIndex(journal[j].alert)
              => i < j

\* C3 witness: two alerts admitted against their call order, the first
\* admitted with two records (a chain), all written before the other's.
AdmittedOutOfCallOrder ==
    \E i, j, k \in DOMAIN journal :
        /\ i < j /\ j < k
        /\ journal[i].alert = journal[j].alert
        /\ journal[j].alert > journal[k].alert

\* C4: no journal write uses the id of an earlier journal write.
IdsCollisionFree ==
    \A i, j \in DOMAIN journal :
        i < j => journal[i].record.ID # journal[j].record.ID

AllowedInWindow(n, w, k) ==
    {i \in 1..k : /\ limiter[i].node = n
                  /\ limiter[i].tracked
                  /\ limiter[i].allowed
                  /\ limiter[i].windowStart = w}

\* C6: in a tracked window at most max_cuts cuts are admitted; an alert that
\* reaches the limiter inside a window that is full is denied; a denied alert
\* is journalled as a 'rate limit exceeded' failure and reaches no backend.
RateLimitedWindow ==
    \A k \in DOMAIN limiter :
        LET c == limiter[k]
            limit == policy[c.node].RateLimit
        IN c.tracked =>
            /\ Cardinality(AllowedInWindow(c.node, c.windowStart, k)) <= limit.MaxCuts
            /\ \A i \in 1..(k - 1) :
                  /\ limiter[i].node = c.node
                  /\ limiter[i].allowed
                  /\ c.at - limiter[i].windowStart <= limit.Window * Minute
                  /\ Cardinality(AllowedInWindow(c.node, limiter[i].windowStart, k - 1))
                        >= limit.MaxCuts
                  => ~c.allowed
            /\ ~c.allowed =>
                  /\ \E j \in RecordsOf(c.alert) :
                        /\ ~journal[j].record.Success
                        /\ journal[j].record.Error = "rate limit exceeded"
                  /\ BackendCalls(c.alert) = <<>>
            /\ c.allowed => limiter[k].windowStart <= c.at

\* C6 witness: a window is full and a further alert of the node is denied.
DeniedInFullWindow ==
    \E k \in DOMAIN limiter :
        /\ ~limiter[k].allowed
        /\ pc[limiter[k].alert] = "done"
        /\ Cardinality(AllowedInWindow(limiter[k].node, limiter[k].windowStart, k))
              = policy[limiter[k].node].RateLimit.MaxCuts

\* The cuts of node n admitted by its tracked limiter at a time in lo..hi.
AdmittedBetween(n, lo, hi) ==
    {i \in DOMAIN limiter : /\ limiter[i].node = n
                            /\ limiter[i].tracked
                            /\ limiter[i].allowed
                            /\ lo <= limiter[i].at
                            /\ limiter[i].at <= hi}

LimitedNodes ==
    {n \in DOMAIN policy :
        ~policy[n].RateLimit.nil /\ policy[n].RateLimit.MaxCuts # 0}

\* C7 as stated: the window is rolling: every interval of window_minutes,
\* wherever it starts, holds at most max_cuts admitted cuts of the node.
RollingWindow ==
    \A n \in LimitedNodes : \A t \in 0..MaxTime :
        policy[n].RateLimit.Window > 0 =>
            Cardinality(AdmittedBetween(n, t, t + policy[n].RateLimit.Window * Minute - 1))
                <= policy[n].RateLimit.MaxCuts

\* C7 amended: the window is fixed, it restarts at the first admission after
\* it elapsed: an interval of window_minutes overlaps at most two windows and
\* holds at most 2 * max_cuts admitted cuts of the node.
TwoWindowsPerInterval ==
    \A n \in LimitedNodes : \A t \in 0..MaxTime :
        Cardinality(AdmittedBetween(n, t, t + policy[n].RateLimit.Window * Minute))
            <= 2 * policy[n].RateLimit.MaxCuts

\* C7 witness: an interval of window_minutes that spans a window restart and
\* holds more than max_cuts admitted cuts.
IntervalAcrossRestart ==
    \E n \in LimitedNodes : \E t \in 0..MaxTime :
        /\ policy[n].RateLimit.Window > 0
        /\ Cardinality(AdmittedBetween(n, t, t + policy[n].RateLimit.Window * Minute - 1))
              > policy[n].RateLimit.MaxCuts

\* C8: an escalation follows a failed primary strategy marked critical, is the
\* second and last strategy executed for the alert, and its failure triggers
\* nothing further.
EscalationOnceAfterCritical ==
    \A a \in Alerts :
        LET ex == Execs(a)
            calls == BackendCalls(a)
        IN /\ cur[a].role = "escalation" =>
                /\ Len(ex) >= 1
                /\ ex[1].role = "primary"
                /\ ~ex[1].record.Success
                /\ ex[1].strategy.Critical
           /\ \A i \in DOMAIN ex : ex[i].role = "escalation" => i = 2 /\ Len(ex) = 2
           /\ \A i \in DOMAIN calls :
                 calls[i].role = "escalation" => i = Len(calls) /\ i <= 2
           /\ pc[a] = "done" /\ Len(ex) = 2 /\ ex[2].role = "escalation" =>
                 ch[a][1].Success = ex[2].record.Success

\* C8 witness: an escalated strategy failed, it is itself critical and names
\* a fallback that exists, and the alert returned.
EscalationFailedAndReturned ==
    \E a \in Alerts :
        /\ pc[a] = "done"
        /\ Len(Execs(a)) = 2
        /\ Execs(a)[2].role = "escalation"
        /\ ~Execs(a)[2].record.Success
        /\ Execs(a)[2].strategy.Critical
        /\ Resolves(req[a].node, Execs(a)[2].strategy.OnFailure)

\* C9: a fallback follows a failed primary strategy whose on_failure is the
\* action of a strategy of the same node, which is the one executed; an alert
\* with a fallback has no escalation.
FallbackOnlyForSibling ==
    \A a \in Alerts :
        LET ex == Execs(a)
            calls == BackendCalls(a)
        IN /\ cur[a].role = "fallback" =>
                /\ Len(ex) >= 1
                /\ ex[1].role = "primary"
                /\ ~ex[1].record.Success
                /\ Resolves(req[a].node, ex[1].strategy.OnFailure)
                /\ cur[a].strategy \in StrategiesOf(req[a].node)
                /\ cur[a].strategy.Action = ex[1].strategy.OnFailure
           /\ (\E i \in DOMAIN ex : ex[i].role = "fallback") =>
                /\ cur[a].role = "fallback"
                /\ \A i \in DOMAIN ex : ex[i].role # "escalation"
                /\ \A i \in DOMAIN calls : calls[i].role # "escalation"

\* C9 witness: a fallback ran for a failed strategy that is critical and has
\* an escalation target, and the alert returned.
FallbackInsteadOfEscalation ==
    \E a \in Alerts :
        /\ pc[a] = "done"
        /\ Len(Execs(a)) = 2
        /\ Execs(a)[2].role = "fallback"
        /\ Execs(a)[1].strategy.Critical
        /\ \E s \in StrategiesOf(req[a].node) :
              s.Threshold > Execs(a)[1].strategy.Threshold

\* C10: when the primary strategy failed and its on_failure resolves, the
\* fallback is the second and last strategy executed and ExecuteCut returns
\* its result, also when the fallback failed.
FallbackResultReturned ==
    \A a \in Alerts :
        LET ex == Execs(a)
        IN /\ pc[a] = "done"
           /\ Len(ex) >= 1
           /\ ~ex[1].record.Success
           /\ Resolves(req[a].node, ex[1].strategy.OnFailure)
           => /\ Len(ex) = 2
              /\ ex[2].role = "fallback"
              /\ ex[2].strategy.Action = ex[1].strategy.OnFailure
              /\ ch[a] = <<CutResult(req[a].node, ex[2].record.Action,
                                     ex[2].record.Success, ex[2].record.Error,
                                     ex[2].record.LatencyMs)>>

\* C10 witness: the fallback failed, is critical, names a fallback of its own
\* that exists and has an escalation target, and the alert returned.
FailedFallbackReturned ==
    \E a \in Alerts :
        /\ pc[a] = "done"
        /\ Len(Execs(a)) = 2
        /\ Execs(a)[2].role = "fallback"
        /\ ~Execs(a)[2].record.Success
        /\ Execs(a)[2].strategy.Critical
        /\ Resolves(req[a].node, Execs(a)[2].strategy.OnFailure)
        /\ \E s \in StrategiesOf(req[a].node) :
              s.Threshold > Execs(a)[2].strategy.Threshold

\* C11: an escalation runs the next higher strategy of the node: its
\* threshold is above the failed strategy's and no strategy of the node has a
\* threshold strictly between the two.
EscalatesToNextHigher ==
    \A a \in Alerts :
        cur[a].role = "escalation" =>
            LET t == Execs(a)[1].strategy.Threshold
                target == cur[a].strategy
            IN /\ target.Threshold > t
               /\ \A s \in StrategiesOf(req[a].node) :
                     ~(t < s.Threshold /\ s.Threshold < target.Threshold)

\* The alert has passed the admission steps of ExecuteCut.
PastAdmission(a) == pc[a] \in {"exec", "backend", "decide", "return", "done"}

\* The wall clock reading t is outside every time window of the node.
OutsideWindows(node, t) ==
    /\ policy[node].TimeWindows # <<>>
    /\ \A i \in DOMAIN policy[node].TimeWindows :
          ~(/\ policy[node].TimeWindows[i].Start <= HHMM(t)
            /\ HHMM(t) <= policy[node].TimeWindows[i].End)

DeniedUnknown(a) == req[a].node \notin DOMAIN policy

DeniedByGate(a) ==
    /\ req[a].node \in DOMAIN policy
    /\ gate[a] # <<>>
    /\ OutsideWindows(req[a].node, gate[a][1])

DeniedByLimiter(a) ==
    \E k \in DOMAIN limiter : limiter[k].alert = a /\ ~limiter[k].allowed

\* C12: an alert for an unknown node, outside the node's time windows or
\* refused by the rate limiter returns a failure with latency 0, journals one
\* record with success=false and latency 0, and reaches no backend.
DeniedAlertsFailFast ==
    \A a \in Alerts :
        PastAdmission(a) /\ (DeniedUnknown(a) \/ DeniedByGate(a) \/ DeniedByLimiter(a))
        => /\ pc[a] \in {"return", "done"}
           /\ ~last[a].Success
           /\ last[a].LatencyMs = 0
           /\ last[a].Error # ""
           /\ BackendCalls(a) = <<>>
           /\ Cardinality(RecordsOf(a)) = 1
           /\ \A j \in RecordsOf(a) :
                 /\ ~journal[j].record.Success
                 /\ journal[j].record.LatencyMs = 0
                 /\ journal[j].record.Error = last[a].Error
           /\ pc[a] = "done" => ch[a] = <<last[a]>>

\* C12 witness: an alert that applies to a strategy of its node arrived
\* outside the node's time windows and returned.
DeniedOutsideWindow ==
    \E a \in Alerts :
        /\ pc[a] = "done"
        /\ DeniedByGate(a)
        /\ \E s \in StrategiesOf(req[a].node) : s.Threshold <= req[a].entropy

\* C13: for a known node inside its time windows, an alert below all of the
\* node's thresholds returns success with action "none" and latency 0,
\* reaches no backend and journals one record with action "none" and strategy
\* threshold 0.
SkippedAlertIsNoAction ==
    \A a \in Alerts :
        /\ PastAdmission(a)
        /\ req[a].node \in DOMAIN policy
        /\ ~DeniedByGate(a)
        /\ \A s \in StrategiesOf(req[a].node) : req[a].entropy < s.Threshold
        => /\ pc[a] \in {"return", "done"}
           /\ last[a] = CutResult(req[a].node, "none", TRUE, "", 0)
           /\ BackendCalls(a) = <<>>
           /\ Cardinality(RecordsOf(a)) = 1
           /\ \A j \in RecordsOf(a) :
                 /\ journal[j].record.Action = "none"
                 /\ journal[j].record.Success
                 /\ journal[j].record.LatencyMs = 0
                 /\ journal[j].record.Strategy.Threshold = 0
                 /\ journal[j].record.Strategy.Action = "none"

\* C13 witness: an alert of positive entropy below the thresholds of its
\* node was skipped and returned.
SkippedBelowThresholds ==
    \E a \in Alerts :
        /\ pc[a] = "done"
        /\ req[a].node \in DOMAIN policy
        /\ req[a].entropy > 0
        /\ ch[a] = <<CutResult(req[a].node, "none", TRUE, "", 0)>>

\* C14: the timestamps of a node's journal records strictly increase in the
\* order the records are written.
TimestampsStrictlyIncrease ==
    \A i, j \in DOMAIN journal :
        i < j /\ journal[i].record.Node = journal[j].record.Node
        => journal[i].record.Timestamp < journal[j].record.Timestamp

\* The last journal write of alert a.
LastWrite(a) == journal[CHOOSE i \in RecordsOf(a) : \A j \in RecordsOf(a) : j <= i]

\* C15: whatever SaveCut returns, ExecuteCut returns the result that the gate
\* or the backend produced and that logCut was handed, and the HTTP response
\* is that result's.
JournalFailureKeepsResult ==
    \A a \in Alerts :
        /\ pc[a] \in {"return", "done"} =>
              /\ RecordsOf(a) # {}
              /\ last[a] = LastWrite(a).result
              /\ LastWrite(a).record.Success = last[a].Success
        /\ http[a].state = "done" /\ http[a].status \in {200, 500} =>
              /\ http[a].body = CutResponse(LastWrite(a).result)
              /\ http[a].status = 200 <=> LastWrite(a).result.Success

\* C15 witness: the journal write of a successful cut failed and the request
\* was answered 200.
SaveFailedCutSucceeded ==
    \E a \in Alerts :
        /\ http[a].status = 200
        /\ LastWrite(a).saveErr # ""
        /\ LastWrite(a).role = "primary"
        /\ LastWrite(a).record.ID \notin DOMAIN files

\* C16: with a notification manager, every journal write is followed by one
\* NotifyCut call carrying the record's id, node, action and success flag,
\* and the result returned is the one logCut was handed, also when the
\* notification failed; without a manager nothing is notified.
OneNotificationPerWrite ==
    /\ env.notifications = "nil" => events = <<>>
    /\ env.notifications # "nil" =>
          /\ Len(events) = Len(journal)
          /\ \A i \in DOMAIN events :
                /\ events[i].event.ID = journal[i].record.ID
                /\ events[i].event.Node = journal[i].record.Node
                /\ events[i].event.Action = journal[i].record.Action
                /\ events[i].event.Success = journal[i].record.Success
    /\ \A a \in Alerts :
          pc[a] \in {"return", "done"} => last[a] = LastWrite(a).result

\* C16 witness: the notification of a successful cut failed and the cut
\* returned its success.
NotifyFailedCutSucceeded ==
    \E i \in DOMAIN events :
        /\ events[i].err # ""
        /\ events[i].event.Success
        /\ events[i].event.Action # "none"
        /\ pc[journal[i].alert] = "done"
        /\ ch[journal[i].alert] = <<journal[i].result>>

\* C17: a call's channel gets at most one send, is closed with that send,
\* never holds more than its capacity, and the send can always proceed,
\* whether or not the handler still waits.
SingleDeliveryNeverBlocks ==
    \A a \in Alerts :
        /\ sent[a] <= 1
        /\ closed[a] <=> sent[a] = 1
        /\ closed[a] <=> pc[a] = "done"
        /\ Len(ch[a]) <= ChanCap
        /\ pc[a] = "return" => CanSend(ch[a], http[a].state = "select")

\* C17 witness: the result was sent and the channel closed after the handler
\* had answered 504; the result stays in the buffer.
SentAfterTimeout ==
    \E a \in Alerts :
        /\ http[a].status = 504
        /\ pc[a] = "done"
        /\ closed[a]
        /\ ch[a] = <<last[a]>>

\* C18: the context of a backend call in flight is done only when its own
\* deadline has passed, never because the HTTP request ended.
RequestEndLeavesCutRunning ==
    \A a \in Alerts :
        pc[a] = "backend" /\ CtxDone(a) => now - start[a] >= CutTimeout

\* C19: a request that reached the handler's select is answered 200 exactly
\* when the result delivered is a success, 500 with the result as body when
\* it is a failure, and 504, without a result, only once the ceiling passed.
StatusFollowsResult ==
    \A a \in Alerts :
        http[a].state = "done" /\ http[a].status \notin {400, 401, 403} =>
            /\ http[a].status \in {200, 500, 504}
            /\ http[a].status \in {200, 500} =>
                  /\ sent[a] = 1 /\ ch[a] = <<>>
                  /\ http[a].body = CutResponse(last[a])
                  /\ http[a].status = 200 <=> last[a].Success
            /\ http[a].status = 504 =>
                  /\ now - http[a].since >= Ceiling
                  /\ http[a].body = NoResult
                  /\ sent[a] = 1 => ch[a] = <<last[a]>>

\* C19 witness: an alert for an unknown node was answered 500 with the
\* failure as body.
DenialAnswered500 ==
    \E a \in Alerts :
        /\ http[a].status = 500
        /\ http[a].body.Error = "unknown node"

Missing(header) == header = <<>>

Malformed(header) ==
    /\ header # <<>>
    /\ \/ Len(header) # 2
       \/ header[1] # "sha256"
       \/ ~header[2].hex

WrongSignature(request) ==
    /\ ~Missing(request.header)
    /\ ~Malformed(request.header)
    /\ request.header[2].bytes # Mac(request.body, env.secret)

EngineUntouched(a) ==
    /\ pc[a] = "idle"
    /\ RecordsOf(a) = {}
    /\ BackendCalls(a) = <<>>
    /\ ~Admitted(a)

\* C20 as stated: with a secret, a missing or malformed signature is
\* answered 401 and a well-formed wrong one 403, the engine is not invoked and
\* nothing is journalled.
RejectsMalformedWith401 ==
    \A a \in Alerts :
        env.secret # "" /\ http[a].state # "none" =>
            /\ Missing(http[a].request.header) \/ Malformed(http[a].request.header)
                  => http[a].status = 401 /\ EngineUntouched(a)
            /\ WrongSignature(http[a].request)
                  => http[a].status = 403 /\ EngineUntouched(a)

\* C20 amended: with a secret, a missing signature is answered 401, a
\* malformed or a wrong one 403, the engine is not invoked and nothing is
\* journalled.
RejectsMalformedWith403 ==
    \A a \in Alerts :
        env.secret # "" /\ http[a].state # "none" =>
            /\ Missing(http[a].request.header)
                  => http[a].status = 401 /\ EngineUntouched(a)
            /\ Malformed(http[a].request.header) \/ WrongSignature(http[a].request)
                  => http[a].status = 403 /\ EngineUntouched(a)

\* C20 witness: a request whose header is sha256= followed by text that is
\* not hex was answered 403.
MalformedRejected ==
    \E a \in Alerts :
        /\ env.secret # ""
        /\ Len(http[a].request.header) = 2
        /\ http[a].request.header[1] = "sha256"
        /\ ~http[a].request.header[2].hex
        /\ http[a].status = 403

\* The header has the form sha256=<hex> and <hex> decodes to the HMAC-SHA256
\* of the payload under the secret.
SignedBy(signature, payload, secret) ==
    /\ Len(signature) = 2
    /\ signature[1] = "sha256"
    /\ signature[2].hex
    /\ signature[2].bytes = Mac(payload, secret)

\* C21 as stated: for every secret, body and header, the verification accepts
\* exactly when the header is sha256=<hex> and <hex> decodes to the HMAC-SHA256
\* of the body under the secret.
AcceptsIffSigned ==
    \A i \in DOMAIN verified :
        verified[i].accepted <=>
            SignedBy(verified[i].signature, verified[i].payload, verified[i].secret)

\* C21 amended: for every non-empty secret the verification accepts exactly
\* when the header is sha256=<hex> and <hex> decodes to the HMAC-SHA256 of the
\* body under the secret; under the empty secret it accepts every header.
AcceptsIffSignedUnderSecret ==
    \A i \in DOMAIN verified :
        /\ verified[i].secret # "" =>
              (verified[i].accepted <=>
                  SignedBy(verified[i].signature, verified[i].payload,
                           verified[i].secret))
        /\ verified[i].secret = "" => verified[i].accepted

\* C21 witness: under the empty secret a header signed with another key was
\* accepted.
UnsignedAcceptedWithoutSecret ==
    \E i \in DOMAIN verified :
        /\ verified[i].secret = ""
        /\ verified[i].accepted
        /\ verified[i].status = 0
        /\ verified[i].signature = <<"sha256", Hex(Mac(verified[i].payload, "other"))>>

Decodable(dir) == {dir[id].record : id \in {x \in DOMAIN dir : dir[x].decodable}}

\* The list holds records of the directory that decode, each once, the whole
\* of them when the limit is not positive and the first `limit` of them, the
\* newest, when it is.
ListsDecodable(l) ==
    LET all == Decodable(l.dir)
        got == {l.cuts[i] : i \in DOMAIN l.cuts}
    IN /\ got \subseteq all
       /\ Cardinality(got) = Len(l.cuts)
       /\ Len(l.cuts) = IF l.limit > 0 /\ Cardinality(all) > l.limit
                        THEN l.limit ELSE Cardinality(all)
       /\ \A r \in all \ got : \A k \in got : r.Timestamp <= k.Timestamp

\* C23 as stated: ListCuts(limit) returns the decodable records sorted
\* strictly descending by timestamp, cut to the first `limit` when limit > 0
\* and whole when limit <= 0, for every journal.
ListsStrictlyDescending ==
    \A n \in DOMAIN listing :
        /\ ListsDecodable(listing[n])
        /\ \A i, j \in DOMAIN listing[n].cuts :
              i < j => listing[n].cuts[i].Timestamp > listing[n].cuts[j].Timestamp

\* C23 amended: ListCuts(limit) returns the decodable records sorted
\* descending by timestamp, records of equal timestamp side by side, cut to
\* the first `limit` when limit > 0 and whole when limit <= 0, for every
\* journal.
ListsDescending ==
    \A n \in DOMAIN listing :
        /\ ListsDecodable(listing[n])
        /\ \A i, j \in DOMAIN listing[n].cuts :
              i < j => listing[n].cuts[i].Timestamp >= listing[n].cuts[j].Timestamp

\* C23 witness: a journal with a file that does not decode and two records
\* of one timestamp, both listed, and a positive limit that cut the list.
ListedEqualTimestamps ==
    \E n \in DOMAIN listing :
        /\ \E id \in DOMAIN listing[n].dir : ~listing[n].dir[id].decodable
        /\ listing[n].limit > 0
        /\ Len(listing[n].cuts) = listing[n].limit
        /\ Cardinality(Decodable(listing[n].dir)) > listing[n].limit
        /\ \E i \in DOMAIN listing[n].cuts :
              /\ i + 1 \in DOMAIN listing[n].cuts
              /\ listing[n].cuts[i].Timestamp = listing[n].cuts[i + 1].Timestamp

\* The failed findings of the node in the reports, as places (report, index).
FailedIn(reports, node) ==
    {p \in UNION {{<<r, i>> : i \in DOMAIN reports[r]} : r \in DOMAIN reports} :
        reports[p[1]][p[2]].Node = node /\ ~reports[p[1]][p[2]].Passed}

\* C24: the effectiveness Correlate returns is a number from 0 to 100, it is
\* the number of remediated findings over the number of failed findings of
\* the node times 100, and it is 0 when the node has no failed finding.
EffectivenessIsAShare ==
    \A n \in DOMAIN correlated :
        LET q == correlated[n]
            e == q.result.Effectiveness
            failed == Cardinality(FailedIn(q.reports, q.node))
        IN /\ e.den > 0
           /\ 0 <= e.num /\ e.num <= 100 * e.den
           /\ Len(q.result.Findings) = failed
           /\ Len(q.result.Remediated) <= failed
           /\ failed > 0 => e.num * failed = Len(q.result.Remediated) * 100 * e.den
           /\ failed = 0 => e.num = 0

\* C24 witness: a node with failed findings in two reports, some remediated
\* and some not.
PartlyEffective ==
    \E n \in DOMAIN correlated :
        /\ Len(correlated[n].reports) = 2
        /\ Len(correlated[n].result.Findings) = 3
        /\ Len(correlated[n].result.Remediated) = 1
        /\ correlated[n].result.Effectiveness.num = 100
        /\ correlated[n].result.Effectiveness.den = 3

\* The cuts of the correlation window that lie on or after the finding and
\* at most the window later, as indices of the result's cuts.
Fitting(q, finding) ==
    {j \in DOMAIN q.result.Cuts :
        /\ finding.Timestamp.ok
        /\ q.result.Cuts[j].Timestamp >= finding.Timestamp.t
        /\ q.result.Cuts[j].Timestamp <= finding.Timestamp.t + q.timeWindow}

ImportedFindingsAreCorrelated ==
    \A c \in DOMAIN correlated : \A i \in 1..correlated[c].imported :
        LET failed == Cardinality(FailedIn(<<imports[i].report.Findings>>,
                                           correlated[c].node))
        IN imports[i].status = 200 /\ failed > 0 =>
              /\ correlated[c].total_findings >= failed
              /\ correlated[c].effectiveness.den = correlated[c].total_findings

\* C27: LoadPolicy returns a policy only for a document with at least one
\* node, at least one strategy in every node, every threshold in [0,1] and
\* every action non-empty; for any other document it returns no policy and
\* an error naming a node at fault and, for a strategy, its index.
WellFormed(doc) ==
    /\ DOMAIN doc # {}
    /\ \A name \in DOMAIN doc :
          /\ Len(doc[name].Strategies) >= 1
          /\ \A j \in 1..Len(doc[name].Strategies) :
                /\ doc[name].Strategies[j].Threshold \in 0..MaxThreshold
                /\ doc[name].Strategies[j].Action # ""

AtFault(doc, err) ==
    \/ DOMAIN doc = {} /\ err.node = ""
    \/ /\ err.node \in DOMAIN doc
       /\ \/ Len(doc[err.node].Strategies) = 0 /\ err.strategy = 0 - 1
          \/ /\ err.strategy + 1 \in 1..Len(doc[err.node].Strategies)
             /\ LET strat == doc[err.node].Strategies[err.strategy + 1]
                IN strat.Threshold \notin 0..MaxThreshold \/ strat.Action = ""

LoadsOnlyWellFormedPolicies ==
    \A i \in DOMAIN boot :
        IF boot[i].ok
        THEN WellFormed(boot[i].doc) /\ boot[i].err = NoError
        ELSE /\ boot[i].policy = <<>>
             /\ boot[i].err # NoError
             /\ AtFault(boot[i].doc, boot[i].err)

\* The wall clock reading t is inside a time window of the node, both ends
\* included.
InsideAWindow(node, t) ==
    \E i \in DOMAIN policy[node].TimeWindows :
        /\ policy[node].TimeWindows[i].Start <= HHMM(t)
        /\ HHMM(t) <= policy[node].TimeWindows[i].End

\* Alert a went past the gate: its strategy was selected, which either
\* found none or asked the rate limiter.
PastGate(a) ==
    \/ \E k \in DOMAIN limiter : limiter[k].alert = a
    \/ /\ pc[a] \in {"return", "done"}
       /\ last[a] = CutResult(req[a].node, "none", TRUE, "", 0)

\* C28: an alert for a node that declares time windows goes past the gate
\* exactly when the HH:MM of the wall clock is inside one of them, both ends
\* included; otherwise it returns the failure 'outside allowed time windows',
\* journals it with an empty strategy, and selects no strategy, asks no rate
\* limit and calls no backend. An alert for a node without windows always
\* goes past the gate.
GateAdmitsExactlyInsideAWindow ==
    \A a \in Alerts :
        PastAdmission(a) /\ req[a].node \in DOMAIN policy =>
            IF \/ policy[req[a].node].TimeWindows = <<>>
               \/ InsideAWindow(req[a].node, gate[a][1])
            THEN /\ PastGate(a)
                 /\ last[a].Error # "outside allowed time windows"
            ELSE /\ ~PastGate(a)
                 /\ pc[a] \in {"return", "done"}
                 /\ last[a] = CutResult(req[a].node, "", FALSE,
                                        "outside allowed time windows", 0)
                 /\ cur[a] = Running(EmptyStrategy, "")
                 /\ BackendCalls(a) = <<>>
                 /\ Cardinality(RecordsOf(a)) = 1
                 /\ \A j \in RecordsOf(a) :
                       /\ journal[j].result = last[a]
                       /\ journal[j].record.Strategy.Action = ""
                       /\ journal[j].record.Error = last[a].Error
                       /\ ~journal[j].record.Success

\* C28 witness: of two alerts for a node whose windows are <<start, end>> =
\* <<1, 0>> and <<1, 1>>, one arrived before the start of both and was
\* denied, the other arrived at the minute that is the start and the end of
\* the second and reached a backend.
DeniedBeforeStartAdmittedAtEnd ==
    \E a, b \in Alerts :
        /\ pc[a] = "done" /\ pc[b] = "done"
        /\ req[a].node = req[b].node
        /\ req[a].node \in DOMAIN policy
        /\ Len(policy[req[a].node].TimeWindows) = 2
        /\ \A i \in DOMAIN policy[req[a].node].TimeWindows :
              HHMM(gate[a][1]) < policy[req[a].node].TimeWindows[i].Start
        /\ last[a].Error = "outside allowed time windows"
        /\ \E i \in DOMAIN policy[req[b].node].TimeWindows :
              /\ HHMM(gate[b][1]) = policy[req[b].node].TimeWindows[i].Start
              /\ HHMM(gate[b][1]) = policy[req[b].node].TimeWindows[i].End
        /\ BackendCalls(b) # <<>>

\* C29: an alert for a node that is not in the policy returns success=false
\* with the error 'unknown node' and an empty action, writes one failure
\* record with an empty strategy, and calls no backend; neither the time
\* windows nor the rate limiter are asked.
UnknownNodeFailsWithOneRecord ==
    \A a \in Alerts :
        PastAdmission(a) /\ req[a].node \notin DOMAIN policy =>
            /\ pc[a] \in {"return", "done"}
            /\ last[a] = CutResult(req[a].node, "", FALSE, "unknown node", 0)
            /\ BackendCalls(a) = <<>>
            /\ gate[a] = <<>>
            /\ \A k \in DOMAIN limiter : limiter[k].alert # a
            /\ Cardinality(RecordsOf(a)) = 1
            /\ \A j \in RecordsOf(a) :
                  /\ journal[j].record.Node = req[a].node
                  /\ journal[j].record.Strategy.Action = ""
                  /\ journal[j].record.Strategy.Threshold = 0
                  /\ journal[j].record.Action = ""
                  /\ journal[j].record.Error = "unknown node"
                  /\ ~journal[j].record.Success

\* C29 witness: an alert of the highest entropy for a node that is not in
\* the policy has returned, after an alert for a node of the policy reached
\* a backend.
UnknownNodeAlertReturned ==
    \E a, b \in Alerts :
        /\ pc[a] = "done"
        /\ req[a].node \notin DOMAIN policy
        /\ req[a].entropy = MaxThreshold
        /\ ch[a] = <<last[a]>>
        /\ pc[b] = "done"
        /\ BackendCalls(b) # <<>>

\* C30: the journal's read-write lock never deadlocks: whatever the
\* interleaving of ListCuts calls with SaveCut and PurgeOldCuts calls, every
\* call that was made eventually has the lock and returns.
EveryJournalCallReturns ==
    \A c \in 1..NumConcurrent :
        (Len(callers) >= c) ~> (Len(callers) >= c /\ callers[c].pc = "returned")

\* C31: every ExecuteCutAsync call eventually delivers its result and closes
\* its channel, the engine mutex being fair and the backends returning.
EveryCallDelivers ==
    \A a \in Alerts : (pc[a] # "idle") ~> (closed[a] /\ sent[a] = 1)

\* C32: every journal record, of an executed strategy (primary, fallback or
\* escalation, with or without a cutter) as of a denied or skipped alert,
\* carries the entropy of the alert that caused it.
RecordsCarryAlertEntropy ==
    \A j \in DOMAIN journal :
        journal[j].record.Entropy = req[journal[j].alert].entropy

\* The rate limiter's entry of a node: empty when it has none.
EntryOf(counts, n) == IF n \in DOMAIN counts THEN <<counts[n]>> ELSE <<>>

\* Alert a is at the rate-limit check: its node is known, the gate lets it
\* pass and a strategy applies.
AtRateLimitCheck(a) ==
    /\ pc[a] = "admit"
    /\ req[a].node \in DOMAIN policy
    /\ checkTimeWindows(policy[req[a].node], wall) = ""
    /\ SelectStrategy(policy[req[a].node], req[a].entropy).ok

\* C33: the rate limiter's entry of a node (count and window start) changes
\* only in the step in which an alert for that node makes the rate-limit
\* check: not for unknown nodes, not for alerts denied by the gate or without
\* strategy, not by an alert of another node, not by a fallback or an
\* escalation. A denied alert leaves the entry as it is.
RateLimiterFrame ==
    [][\A n \in NodeNames :
          EntryOf(nodeCounts', n) # EntryOf(nodeCounts, n) =>
             /\ \E a \in Alerts :
                   /\ AtRateLimitCheck(a)
                   /\ req[a].node = n
                   /\ pc'[a] = "exec"
                   /\ Len(limiter') = Len(limiter) + 1
             /\ n \in DOMAIN policy
             /\ ~policy[n].RateLimit.nil]_vars

\* C33 witness: alerts for an unknown node, for a node without rate limit
\* that ran a fallback, and for the rate-limited node have returned, and the
\* rate limiter holds the one entry of the rate-limited node, counting its
\* alert.
OnlyLimitedNodeCounted ==
    \E a, b, c \in Alerts :
        /\ pc[a] = "done" /\ pc[b] = "done" /\ pc[c] = "done"
        /\ req[a].node \notin DOMAIN policy
        /\ req[b].node \in DOMAIN policy
        /\ policy[req[b].node].RateLimit.nil
        /\ Len(BackendCalls(b)) = 2
        /\ req[c].node \in DOMAIN policy
        /\ ~policy[req[c].node].RateLimit.nil
        /\ DOMAIN nodeCounts = {req[c].node}
        /\ nodeCounts[req[c].node].count = 1

\* C34: an alert causes at most two backend executions, at most one for its
\* primary strategy and at most one for a fallback or an escalation; the
\* second strategy runs only after the primary one failed, and nothing runs
\* after the primary one succeeded.
AtMostTwoExecutions ==
    \A a \in Alerts :
        LET ex == Execs(a)
            calls == BackendCalls(a)
            primary == {i \in DOMAIN calls : calls[i].role = "primary"}
            second == {i \in DOMAIN calls : calls[i].role # "primary"}
        IN /\ Len(calls) <= 2
           /\ Len(ex) <= 2
           /\ Cardinality(primary) <= 1
           /\ Cardinality(second) <= 1
           /\ \A i \in primary, j \in second : i < j
           /\ second # {} \/ cur[a].role \in {"fallback", "escalation"} =>
                 /\ Len(ex) >= 1
                 /\ ex[1].role = "primary"
                 /\ ~ex[1].result.Success
           /\ Len(ex) >= 1 /\ ex[1].result.Success =>
                 /\ Len(ex) = 1
                 /\ Len(calls) = 1
                 /\ cur[a].role = "primary"
                 /\ pc[a] \in {"decide", "return", "done"}

\* C34 witness: an alert returned after two backend executions that both
\* failed, the second of a critical strategy under which the node has a
\* strategy left that was not run.
TwoFailedExecutionsThenReturn ==
    \E a \in Alerts :
        /\ pc[a] = "done"
        /\ Len(BackendCalls(a)) = 2
        /\ \A i \in DOMAIN Execs(a) : ~Execs(a)[i].result.Success
        /\ Execs(a)[2].strategy.Critical
        /\ \E s \in StrategiesOf(req[a].node) :
              /\ s # Execs(a)[1].strategy
              /\ s # Execs(a)[2].strategy
              /\ FindCutter(s.Action).ok

\* The number of places of the list that hold x.
Places(list, x) == Cardinality({i \in DOMAIN list : list[i] = x})

\* C35: Correlate's result partitions the failed findings of the node: each
\* of them is in the remediated correlations or in unresolved, as often as it
\* is among the failed findings, and never in both, so that
\* |remediated| + |unresolved| = |failed findings|.
FailedFindingsPartitioned ==
    \A n \in DOMAIN correlated :
        LET q == correlated[n]
            r == q.result
            remediated == [i \in DOMAIN r.Remediated |-> r.Remediated[i].Finding]
        IN /\ Len(r.Findings) = Cardinality(FailedIn(q.reports, q.node))
           /\ Len(r.Remediated) + Len(r.Unresolved) = Len(r.Findings)
           /\ \A k \in DOMAIN r.Findings :
                 /\ Places(remediated, r.Findings[k]) + Places(r.Unresolved, r.Findings[k])
                       = Places(r.Findings, r.Findings[k])
                 /\ Places(remediated, r.Findings[k]) = 0
                       \/ Places(r.Unresolved, r.Findings[k]) = 0
           /\ \A i \in DOMAIN remediated : Places(r.Findings, remediated[i]) > 0
           /\ \A i \in DOMAIN r.Unresolved : Places(r.Findings, r.Unresolved[i]) > 0

\* C35 witness: of three failed findings of the node, two of one control and
\* collector, one of these two is remediated and the other, with the third,
\* unresolved.
SameControlOnBothSides ==
    \E n \in DOMAIN correlated :
        LET r == correlated[n].result
        IN /\ Len(r.Findings) = 3
           /\ Len(r.Remediated) = 1
           /\ Len(r.Unresolved) = 2
           /\ \E i \in DOMAIN r.Unresolved :
                 /\ r.Unresolved[i].ControlID = r.Remediated[1].Finding.ControlID
                 /\ r.Unresolved[i].CollectorType = r.Remediated[1].Finding.CollectorType
                 /\ r.Unresolved[i].Timestamp.ok

\* The times of the node's successful cuts among the cuts.
SuccessTimes(cuts, node) ==
    {cuts[i].Timestamp : i \in {k \in DOMAIN cuts : cuts[k].Success /\ cuts[k].Node = node}}

\* The intervals between consecutive successful cuts of one node, those of
\* equal times (intervals of zero) left to IntervalCount: their sum is the
\* span from the node's first successful cut to its last.
NodeSpan(cuts, node) ==
    LET times == SuccessTimes(cuts, node)
    IN IF times = {} THEN 0
       ELSE (CHOOSE t \in times : \A u \in times : u <= t)
            - (CHOOSE t \in times : \A u \in times : t <= u)

\* The number of intervals between consecutive successful cuts of one node.
IntervalCount(cuts, node) ==
    LET n == Cardinality({k \in DOMAIN cuts : cuts[k].Success /\ cuts[k].Node = node})
    IN IF n = 0 THEN 0 ELSE n - 1

\* C36: the MTTR is the mean of the intervals between consecutive successful
\* cuts of the same node, the cuts grouped by node, and it is nil exactly when
\* no node has two successful cuts.
MTTRIsMeanOverNodes ==
    \A k \in DOMAIN mttr :
        LET cuts == mttr[k].cuts
            nodes == {cuts[i].Node : i \in DOMAIN cuts}
            span == [n \in nodes |-> NodeSpan(cuts, n)]
            intervals == [n \in nodes |-> IntervalCount(cuts, n)]
        IN IF Sum(intervals, nodes) = 0
           THEN mttr[k].MTTR = <<>>
           ELSE mttr[k].MTTR = <<Sum(span, nodes) \div Sum(intervals, nodes)>>

\* The cutter whose prefix the action carries, None when it carries none.
CutterByPrefix(action) ==
    CASE action \in DockerActions -> "docker"
      [] action \in SshActions -> "network"
      [] action \in VBoxActions -> "vbox"
      [] OTHER -> None

\* The journal entries written by executeStrategy, not by ExecuteCut itself.
ExecutedEntries == {j \in DOMAIN journal : journal[j].role # ""}

\* C37: every backend call goes to the cutter whose prefix the action has;
\* an executed strategy whose action no cutter claims has a journal record
\* with success=false and the error "no cutter for action" and no backend
\* call, and every such strategy that was executed has its journal record.
DispatchToClaimingCutter ==
    /\ \A i \in DOMAIN invocations :
          invocations[i].cutter = CutterByPrefix(invocations[i].action)
    /\ \A j \in ExecutedEntries :
          CutterByPrefix(journal[j].strategy.Action) = None
          => /\ ~journal[j].result.Success
             /\ journal[j].result.Error = "no cutter for action"
             /\ ~journal[j].record.Success
             /\ ~\E i \in DOMAIN invocations :
                   /\ invocations[i].alert = journal[j].alert
                   /\ invocations[i].action = journal[j].strategy.Action
    /\ \A a \in Alerts :
          /\ cur[a].role # ""
          /\ pc[a] # "exec"
          /\ CutterByPrefix(cur[a].strategy.Action) = None
          => \E j \in ExecutedEntries :
                /\ journal[j].alert = a
                /\ journal[j].strategy = cur[a].strategy

\* C37 witness: an alert whose primary strategy no cutter claims was
\* journalled as failed without a backend call, and its escalation went to
\* the hypervisor cutter.
UnclaimedThenHypervisor ==
    \E j \in ExecutedEntries, i \in DOMAIN invocations :
        /\ CutterByPrefix(journal[j].strategy.Action) = None
        /\ journal[j].role = "primary"
        /\ journal[j].result.Error = "no cutter for action"
        /\ invocations[i].alert = journal[j].alert
        /\ invocations[i].cutter = "vbox"
        /\ Len(invocations) = 1

\* The subcommands of the call's children, in the order they were run.
Subcommands(call) == [i \in DOMAIN call.children |-> call.children[i].cmd]

\* C38: a vbox_revert_snapshot call runs power off, restore, start headless
\* in this order on its VM; whatever the power-off did, the restore is run;
\* the VM is started only after a successful restore; a failed restore
\* returns an error and the VM is not started; without a snapshot name the
\* call returns an error and no child process was invoked.
RevertRunsInOrder ==
    \A k \in DOMAIN revert :
        LET call == revert[k]
            steps == <<"poweroff", "restore", "startvm">>
            n == Len(call.children)
        IN call.action = "vbox_revert_snapshot"
           => /\ n <= 3
              /\ Subcommands(call) = SubSeq(steps, 1, n)
              /\ \A i \in 1..n : call.children[i].vm = call.vm
              /\ call.snapshot = ""
                 => call.ret = <<"vbox_revert_snapshot requires snapshot_name">> /\ n = 0
              /\ call.snapshot # "" /\ call.ret # <<>> => n >= 2
              /\ n = 3 => call.children[2].outcome = "ok"
              /\ n >= 2 /\ call.children[2].outcome # "ok"
                 => call.ret = <<"restore snapshot">> /\ n = 2
              /\ call.ret = <<"">> => n = 3 /\ call.children[3].outcome = "ok"

\* C38 witness: the power-off failed, the restore succeeded, the VM was
\* started and the call returned nil.
RevertedAfterFailedPowerOff ==
    \E k \in DOMAIN revert :
        /\ revert[k].action = "vbox_revert_snapshot"
        /\ revert[k].ret = <<"">>
        /\ Len(revert[k].children) = 3
        /\ revert[k].children[1].outcome = "error"
        /\ revert[k].children[1].started

\* C39: a shell cutter call that returned while its remote command was still
\* running returned the error of its context, which was done; the command
\* goroutine, once it has its result, can always send it; and a call that
\* returned has left neither its client nor its session open.
ShellCutterCancelsAndReleases ==
    \A k \in DOMAIN remote :
        LET call == remote[k]
        IN /\ call.at = "returned" /\ call.running
              => call.ctx # "" /\ call.ret = <<call.ctx>>
           /\ call.goroutine = "sending"
              => CanReport(call.doneCh, call.at = "select")
           /\ call.at = "returned"
              => /\ call.client \in {"none", "closed"}
                 /\ call.session \in {"none", "closed"}
                 /\ call.goroutine # "none" => call.client = "closed" /\ call.session = "closed"

\* C39 witness: the call returned "context canceled" while the command was
\* running, and the goroutine has since reported the command's error to the
\* channel nobody reads and has exited.
CancelledThenReported ==
    \E k \in DOMAIN remote :
        /\ remote[k].at = "returned"
        /\ remote[k].running
        /\ remote[k].ret = <<"context canceled">>
        /\ remote[k].goroutine = "exited"
        /\ remote[k].doneCh = <<"command failed">>

\* The place of a strategy in its declaration, which its on_failure names.
Declared(s) == CHOOSE i \in DOMAIN Declarations : Declarations[i] = s.OnFailure

\* A selection is, of the strategies that share its threshold (and, when
\* selected by action, its action), the one declared first.
FirstDeclared(q, found, sameAction) ==
    found.ok =>
        \A i \in DOMAIN q.declared :
            /\ q.declared[i].Threshold = found.strategy.Threshold
            /\ sameAction => q.declared[i].Action = found.strategy.Action
            => Declared(found.strategy) <= i

\* C40: the strategies of a loaded node are its declared ones in descending
\* order of threshold, those of equal thresholds in their declaration order,
\* and SelectStrategy and SelectStrategyByAction pick, among strategies of
\* equal thresholds, the one declared first.
TiesKeepDeclarationOrder ==
    \A q \in {sel[k] : k \in DOMAIN sel} :
        /\ Len(q.strategies) = Len(q.declared)
        /\ \A i \in DOMAIN q.declared :
              \E j \in DOMAIN q.strategies : q.strategies[j] = q.declared[i]
        /\ \A i, j \in DOMAIN q.strategies :
              i < j => /\ Ge(q.strategies[i].Threshold, q.strategies[j].Threshold)
                       /\ q.strategies[i].Threshold = q.strategies[j].Threshold
                          => Declared(q.strategies[i]) < Declared(q.strategies[j])
        /\ FirstDeclared(q, q.picked, FALSE)
        /\ FirstDeclared(q, q.byAction, TRUE)

====
